---- MODULE Spec2Model ----
(***************************************************************************)
(* Investment-portfolio-analyzer: the price history store (DataCache) and  *)
(* the portfolio metrics / risk engines that consume it.                   *)
(*                                                                         *)
(* Time is counted in whole seconds.  Symbols, periods and cache file      *)
(* names are character sequences, so that file-name construction and glob  *)
(* matching are computed rather than assumed.                              *)
(***************************************************************************)
EXTENDS Integers, Sequences, FiniteSets, TLC

VARIABLES
    now,              \* wall-clock time, seconds
    cacheFiles,       \* DataCache: the *.pkl files of cache_dir, name -> [data, mtime]
    lastRequestTime,  \* DataCache.last_request_time, symbol -> time
    providerLog,      \* per symbol, when the provider was last asked (since a clear)
    ret,              \* the last get_data call: its arguments, timing and result
    conc,             \* get_data calls running concurrently on one cache file
    portfolio,        \* the holdings the engines are constructed on
    cache,            \* portfolio_analysis.PortfolioAnalyzer.cache, key -> series
    res               \* the last engine operation and what it returned

cacheVars == <<now, cacheFiles, lastRequestTime, providerLog, ret, conc>>
engineVars == <<portfolio, cache, res>>

vars == <<now, cacheFiles, lastRequestTime, providerLog, ret, conc, portfolio, cache, res>>

---------------------------------------------------------------------------
(* Bounds of the model *)

MaxSlack == 1
MaxCalls == 2
MaxClose == 2
MaxLen == 2
MaxHoldings == 2
MaxQuantity == 2
MaxPrice == 1
MaxEps == 1
MaxScenarios == 1
MaxBars == 3
MaxWeight == 2
MaxSamples == 2
MaxProcs == 3

(* Program constants, in seconds / attempts *)

CacheDuration == 300
MinRequestInterval == 1
StopAfterAttempt == 3
WaitMin == 4
WaitMax == 10

(* generate_rebalancing_suggestions: the targets, in percent, and the
   difference, in percentage points, a suggestion needs to exceed *)
TargetStock == 60
TargetBond == 30
TargetEtf == 10
RebalanceThreshold == 5
(* percentages are kept to 2 decimals: one percent is 100 hundredths *)
Hundredths == 100
(* the shock of the "Market Crash" scenario, in percent *)
MarketCrash == 20
(* calculate_var: the default confidence level and the flat estimate of the
   fallback, in percent *)
DefaultConfidence == 95
FlatEstimate == 2
(* the risk-free rate, in percent *)
RiskFreeRate == 2

(* The instants the model explores: the first MaxSlack seconds, and the
   MaxSlack seconds from one second before a cache lifetime has passed. *)
TimeOK(t) ==
    \/ t <= MaxSlack
    \/ CacheDuration - 1 <= t /\ t <= CacheDuration - 1 + MaxSlack

---------------------------------------------------------------------------
(* Data *)

Symbols == { <<"A">>, <<"A", "B">> }
Periods == { <<"1", "d">>, <<"1", "y">> }

Closes == 1..MaxClose

RECURSIVE SeqsUpTo(_, _)
SeqsUpTo(S, n) ==
    IF n = 0 THEN { <<>> }
    ELSE LET shorter == SeqsUpTo(S, n - 1)
         IN  shorter \cup { Append(q, x) : q \in { r \in shorter : Len(r) = n - 1 }, x \in S }

SeriesSet == SeqsUpTo(Closes, MaxLen)
NonEmptySeries == SeriesSet \ { <<>> }

(* Series of one bar at most, what a request for one day answers with. The
   store and the risk engine never look inside a series beyond its being
   empty and its last bar. *)
StoreSeries == { s \in SeriesSet : Len(s) <= 1 }

(* A value of type Optional[DataFrame]: none is Python's None; otherwise data
   is the Close column of the frame. *)
NoneData == [none |-> TRUE, data |-> <<>>]
Frame(s) == [none |-> FALSE, data |-> s]

(* "data is not None and not data.empty" *)
Usable(d) == ~d.none /\ d.data # <<>>

Max(a, b) == IF a >= b THEN a ELSE b
Min(a, b) == IF a <= b THEN a ELSE b

(* p / q >= r / s for p, r >= 0 and q, s > 0, by integer parts and then the
   inverted remainders, which keeps every number below the ones given *)
RECURSIVE FracGE(_, _, _, _)
FracGE(p, q, r, s) ==
    IF p \div q # r \div s THEN p \div q > r \div s
    ELSE IF r % s = 0 THEN TRUE
    ELSE IF p % q = 0 THEN FALSE
    ELSE FracGE(s, r % s, q, p % q)

RECURSIVE Pow2(_)
Pow2(n) == IF n = 0 THEN 1 ELSE 2 * Pow2(n - 1)

---------------------------------------------------------------------------
(* The market-data provider: what one run of the fetch chain may meet.
   primary is yf.download (raises, or returns a frame, possibly empty);
   direct is the chart endpoint, consulted only after an empty primary. *)

DirectUnused == [kind |-> "unused", data |-> <<>>]

DirectOutcomes ==
    { [kind |-> k, data |-> <<>>] : k \in {"raise", "unusable", "429"} }
    \cup { [kind |-> "ok", data |-> s] : s \in StoreSeries }

Responses ==
    { [primary |-> [kind |-> "raise", data |-> <<>>], direct |-> DirectUnused] }
    \cup { [primary |-> [kind |-> "frame", data |-> s], direct |-> DirectUnused] :
             s \in StoreSeries \ { <<>> } }
    \cup { [primary |-> [kind |-> "frame", data |-> <<>>], direct |-> d] :
             d \in DirectOutcomes }

---------------------------------------------------------------------------
(* DataCache *)

(* cache_file = cache_dir / f"{symbol}_{period}.pkl" *)
CacheFile(symbol, period) == symbol \o <<"_">> \o period \o <<".pkl">>

(* cache_age < self.cache_duration *)
IsFreshStale(age) == age <= CacheDuration
IsFreshInverted(age) == age > CacheDuration
IsFresh(age) == age < CacheDuration

(* wait_exponential(multiplier=1, min=4, max=10) before attempt n + 1 *)
WaitExponential(n) == Max(WaitMin, Min(Pow2(n - 1), WaitMax))

(* The try block of _fetch_data, started at time t.  times lists the moments a
   request is issued to the provider; elapsed is the blocking sleep before
   the direct call. *)
FetchTry(resp, t) ==
    IF resp.primary.kind = "raise"
    THEN [raised |-> TRUE, d |-> NoneData, times |-> <<t>>, elapsed |-> 0,
          got429 |-> FALSE]
    ELSE IF resp.primary.data # <<>>
    THEN [raised |-> FALSE, d |-> Frame(resp.primary.data), times |-> <<t>>,
          elapsed |-> 0, got429 |-> FALSE]
    ELSE LET t2 == t + MinRequestInterval
             both == <<t, t2>>
         IN  CASE resp.direct.kind = "ok" ->
                    [raised |-> FALSE, d |-> Frame(resp.direct.data), times |-> both,
                     elapsed |-> MinRequestInterval, got429 |-> FALSE]
               [] resp.direct.kind = "429" ->
                    [raised |-> TRUE, d |-> NoneData, times |-> both,
                     elapsed |-> MinRequestInterval, got429 |-> TRUE]
               [] resp.direct.kind = "raise" ->
                    [raised |-> TRUE, d |-> NoneData, times |-> both,
                     elapsed |-> MinRequestInterval, got429 |-> FALSE]
               [] OTHER ->
                    [raised |-> FALSE, d |-> NoneData, times |-> both,
                     elapsed |-> MinRequestInterval, got429 |-> FALSE]

(* _fetch_data: "except Exception" turns every exception of the try block,
   the 429 one included, into a None return. *)
FetchData(resp, t) ==
    LET r == FetchTry(resp, t)
    IN  IF r.raised THEN [r EXCEPT !.raised = FALSE, !.d = NoneData] ELSE r

(* The rate-limit step: seconds to sleep before going on. *)
RateLimitSleep(lrt, symbol, current_time) ==
    IF symbol \in DOMAIN lrt /\ current_time - lrt[symbol] < MinRequestInterval
    THEN MinRequestInterval - (current_time - lrt[symbol])
    ELSE 0

(* f with key k bound to v (dict assignment) and with key k removed (del) *)
PutIgnored(f, k, v) == f
Put(f, k, v) == [x \in DOMAIN f \cup {k} |-> IF x = k THEN v ELSE f[x]]
Drop(f, K) == [x \in DOMAIN f \ K |-> f[x]]

(* One run of the body of get_data on store state st. *)
GetDataBody(st, symbol, period, resp, readFault, writeFault) ==
    LET cache_file == CacheFile(symbol, period)
        current_time == st.now
        passedAt == current_time + RateLimitSleep(st.lastRequestTime, symbol, current_time)
        hit == /\ cache_file \in DOMAIN st.cacheFiles
               /\ IsFresh(current_time - st.cacheFiles[cache_file].mtime)
               /\ ~readFault
    IN  IF hit
        THEN [st |-> [st EXCEPT !.now = passedAt],
              d |-> Frame(st.cacheFiles[cache_file].data), raised |-> FALSE,
              times |-> <<>>, chains |-> 0, start |-> current_time,
              passedAt |-> passedAt, got429 |-> FALSE]
        ELSE LET f == FetchData(resp, passedAt)
                 done == passedAt + f.elapsed
                 lrt == IF Usable(f.d)
                        THEN Put(st.lastRequestTime, symbol, current_time)
                        ELSE st.lastRequestTime
                 files == IF Usable(f.d) /\ ~writeFault
                          THEN Put(st.cacheFiles, cache_file,
                                   [data |-> f.d.data, mtime |-> done])
                          ELSE st.cacheFiles
             IN  [st |-> [now |-> done, cacheFiles |-> files, lastRequestTime |-> lrt],
                  d |-> f.d, raised |-> f.raised, times |-> f.times, chains |-> 1,
                  start |-> current_time, passedAt |-> passedAt, got429 |-> f.got429]

StoreState == [now |-> now, cacheFiles |-> cacheFiles, lastRequestTime |-> lastRequestTime]

(* Whether a fresh entry for the file exists in st: a read can only fail then. *)
HasFresh(st, symbol, period) ==
    /\ CacheFile(symbol, period) \in DOMAIN st.cacheFiles
    /\ IsFresh(st.now - st.cacheFiles[CacheFile(symbol, period)].mtime)

NoCall ==
    [seq |-> 0, symbol |-> <<>>, period |-> <<>>, start |-> 0, passedAt |-> 0,
     d |-> NoneData, failed |-> FALSE, times |-> <<>>,
     chains |-> 0, attempts |-> 0, ended429 |-> FALSE, found |-> <<>>,
     readFault |-> FALSE,
     writeFault |-> FALSE]

(* No concurrent calls: the cache file absent, nothing provided, no call
   started. *)
NoRace == [exists |-> FALSE, content |-> <<>>, provided |-> {}, procs |-> << >>]

(* What a call has done so far, after one more run of the body. *)
Accumulate(acc, r) ==
    [acc EXCEPT !.times = @ \o r.times,
                !.chains = @ + r.chains,
                !.ended429 = r.got429]

(* The call ends with the n-th run r of the body: the store is left as that
   run left it, and ret describes the call. *)
FinishStamps(symbol, r, n, acc, readFault, writeFault) ==
    /\ TimeOK(r.st.now)
    /\ now' = r.st.now
    /\ cacheFiles' = r.st.cacheFiles
    /\ lastRequestTime' = Put(r.st.lastRequestTime, symbol, acc.start)
    /\ providerLog' =
         IF acc.times = <<>> THEN providerLog
         ELSE Put(providerLog, symbol, acc.times[Len(acc.times)])
    /\ ret' = [acc EXCEPT !.d = r.d,
                          !.failed = r.raised,
                          !.attempts = n,
                          !.readFault = readFault,
                          !.writeFault = writeFault]
    /\ UNCHANGED <<conc, engineVars>>
FinishFaultRaises(symbol, r, n, acc, readFault, writeFault) ==
    /\ TimeOK(r.st.now)
    /\ now' = r.st.now
    /\ cacheFiles' = r.st.cacheFiles
    /\ lastRequestTime' = r.st.lastRequestTime
    /\ providerLog' =
         IF acc.times = <<>> THEN providerLog
         ELSE Put(providerLog, symbol, acc.times[Len(acc.times)])
    /\ ret' = [acc EXCEPT !.d = IF readFault \/ writeFault THEN NoneData ELSE r.d,
                          !.failed = r.raised \/ readFault \/ writeFault,
                          !.attempts = n,
                          !.readFault = readFault,
                          !.writeFault = writeFault]
    /\ UNCHANGED <<conc, engineVars>>
Finish(symbol, r, n, acc, readFault, writeFault) ==
    /\ TimeOK(r.st.now)
    /\ now' = r.st.now
    /\ cacheFiles' = r.st.cacheFiles
    /\ lastRequestTime' = r.st.lastRequestTime
    /\ providerLog' =
         IF acc.times = <<>> THEN providerLog
         ELSE Put(providerLog, symbol, acc.times[Len(acc.times)])
    /\ ret' = [acc EXCEPT !.d = r.d,
                          !.failed = r.raised,
                          !.attempts = n,
                          !.readFault = readFault,
                          !.writeFault = writeFault]
    /\ UNCHANGED <<conc, engineVars>>

(* The inputs one run of the body can meet in store state st: a read can fail
   only where a fresh entry is read, a write only where a usable series was
   fetched. *)
ReadFaults(st, symbol, period) ==
    IF HasFresh(st, symbol, period) THEN BOOLEAN ELSE {FALSE}
WriteFaults(st, symbol, period, resp, readFault) ==
    LET r == GetDataBody(st, symbol, period, resp, readFault, FALSE)
    IN  IF r.chains > 0 /\ Usable(r.d) THEN BOOLEAN ELSE {FALSE}

(* after a raising attempt n: the store as the attempt left it, the wait over *)
Waited(r, n) == [r.st EXCEPT !.now = @ + WaitExponential(n)]

(* get_data under @retry(stop=stop_after_attempt(3), wait=wait_exponential(...)):
   the body is run again, after the wait, only when it raised and fewer than
   3 attempts were made; the third attempt ends the call either way. *)
Attempt3(symbol, period, st, acc) ==
    \E resp \in Responses :
    \E readFault \in ReadFaults(st, symbol, period) :
    \E writeFault \in WriteFaults(st, symbol, period, resp, readFault) :
        LET r == GetDataBody(st, symbol, period, resp, readFault, writeFault)
        IN  Finish(symbol, r, StopAfterAttempt, Accumulate(acc, r), readFault, writeFault)

Attempt2(symbol, period, st, acc) ==
    \E resp \in Responses :
    \E readFault \in ReadFaults(st, symbol, period) :
    \E writeFault \in WriteFaults(st, symbol, period, resp, readFault) :
        LET r == GetDataBody(st, symbol, period, resp, readFault, writeFault)
        IN  IF r.raised /\ 2 < StopAfterAttempt
            THEN Attempt3(symbol, period, Waited(r, 2), Accumulate(acc, r))
            ELSE Finish(symbol, r, 2, Accumulate(acc, r), readFault, writeFault)

Attempt1(symbol, period, st, acc) ==
    \E resp \in Responses :
    \E readFault \in ReadFaults(st, symbol, period) :
    \E writeFault \in WriteFaults(st, symbol, period, resp, readFault) :
        LET r == GetDataBody(st, symbol, period, resp, readFault, writeFault)
        IN  IF r.raised /\ 1 < StopAfterAttempt
            THEN Attempt2(symbol, period, Waited(r, 1), Accumulate(acc, r))
            ELSE Finish(symbol, r, 1, Accumulate(acc, r), readFault, writeFault)

GetData(symbol, period) ==
    /\ ret.seq < MaxCalls
    /\ Attempt1(symbol, period, StoreState,
            [NoCall EXCEPT !.seq = ret.seq + 1,
                           !.symbol = symbol, !.period = period,
                           !.passedAt =
                               now + RateLimitSleep(lastRequestTime, symbol, now),
                           !.found = IF CacheFile(symbol, period) \in DOMAIN cacheFiles
                                     THEN <<cacheFiles[CacheFile(symbol, period)]>>
                                     ELSE <<>>,
                           !.start = now])

(* "*.pkl" names matched by glob(f"{symbol}_*.pkl") *)
IsPrefix(p, q) == Len(p) <= Len(q) /\ SubSeq(q, 1, Len(p)) = p
GlobDaily(symbol, name) == name = CacheFile(symbol, <<"1", "d">>)
GlobSymbol(symbol, name) ==
    /\ IsPrefix(symbol \o <<"_">>, name)
    /\ Len(name) > Len(symbol) + 1
    /\ name[Len(name)] = ".pkl"

(* clear_cache(symbol): symbol = <<>> stands for None or "" (both falsy) *)
ClearCache(symbol) ==
    /\ IF symbol # <<>>
       THEN /\ cacheFiles' = Drop(cacheFiles,
                                  { f \in DOMAIN cacheFiles : GlobSymbol(symbol, f) })
            /\ lastRequestTime' = Drop(lastRequestTime, {symbol})
            /\ providerLog' = Drop(providerLog, {symbol})
       ELSE /\ cacheFiles' = << >>
            /\ lastRequestTime' = << >>
            /\ providerLog' = << >>
    /\ UNCHANGED <<now, ret, conc, engineVars>>

(* Wall-clock time passing between requests. *)
Advance(d) ==
    /\ TimeOK(now + d)
    /\ now' = now + d
    /\ UNCHANGED <<cacheFiles, lastRequestTime, providerLog, ret, conc, engineVars>>

---------------------------------------------------------------------------
(* The engines: portfolio_analysis.PortfolioAnalyzer and
   risk_management.RiskManagement, each constructed on a portfolio. *)

AssetTypes == {"stock", "bond"}

Holdings ==
    [symbol : Symbols, quantity : 0..MaxQuantity, purchase_price : 0..MaxPrice,
     asset_type : AssetTypes]

Portfolios == UNION { [1..n -> Holdings] : n \in 1..MaxHoldings }

P1d == <<"1", "d">>

(* What one uncached _get_ticker_data may meet, method by method.  m1 is
   ticker.history (raises, or a frame, possibly empty); m2 the chart endpoint
   and m3 the scraped page, each either failing (an exception, a status other
   than 200, a missing key, nothing left after dropna) or giving a series. *)
MethodUnused == [kind |-> "unused", data |-> <<>>]
MethodRaise == [kind |-> "raise", data |-> <<>>]
MethodFrame(s) == [kind |-> "frame", data |-> s]
FirstFails == { MethodRaise, MethodFrame(<<>>) }

EngineResponses ==
    { [m1 |-> MethodFrame(s), m2 |-> MethodUnused, m3 |-> MethodUnused] :
        s \in NonEmptySeries }
    \cup { [m1 |-> f, m2 |-> MethodFrame(s), m3 |-> MethodUnused] :
             f \in FirstFails, s \in NonEmptySeries }
    \cup { [m1 |-> f, m2 |-> MethodRaise, m3 |-> MethodFrame(s)] :
             f \in FirstFails, s \in NonEmptySeries }
    \cup { [m1 |-> f, m2 |-> MethodRaise, m3 |-> MethodRaise] : f \in FirstFails }

(* cache_key = f"{symbol}_{period}" *)
CacheKey(symbol, period) == symbol \o <<"_">> \o period

(* PortfolioAnalyzer._get_ticker_data on cache c: the value returned and the
   cache afterwards. *)
GetTickerDataLastFirst(c, symbol, period, resp) ==
    LET cache_key == CacheKey(symbol, period)
        stored(s) == [d |-> Frame(s), cache |-> Put(c, cache_key, s)]
    IN  IF cache_key \in DOMAIN c
        THEN [d |-> Frame(c[cache_key]), cache |-> c]
        ELSE IF resp.m3.kind = "frame" /\ resp.m3.data # <<>>
        THEN stored(resp.m3.data)
        ELSE IF resp.m2.kind = "frame" /\ resp.m2.data # <<>>
        THEN stored(resp.m2.data)
        ELSE IF resp.m1.kind = "frame" /\ resp.m1.data # <<>>
        THEN stored(resp.m1.data)
        ELSE [d |-> NoneData, cache |-> c]
GetTickerData(c, symbol, period, resp) ==
    LET cache_key == CacheKey(symbol, period)
        stored(s) == [d |-> Frame(s), cache |-> Put(c, cache_key, s)]
    IN  IF cache_key \in DOMAIN c
        THEN [d |-> Frame(c[cache_key]), cache |-> c]
        ELSE IF resp.m1.kind = "frame" /\ resp.m1.data # <<>>
        THEN stored(resp.m1.data)
        ELSE IF resp.m2.kind = "frame" /\ resp.m2.data # <<>>
        THEN stored(resp.m2.data)
        ELSE IF resp.m3.kind = "frame" /\ resp.m3.data # <<>>
        THEN stored(resp.m3.data)
        ELSE [d |-> NoneData, cache |-> c]

(* The responses a lookup can meet: none is consulted on a cache hit. *)
ResponsesFor(c, symbol, period) ==
    IF CacheKey(symbol, period) \in DOMAIN c
    THEN { [m1 |-> MethodUnused, m2 |-> MethodUnused, m3 |-> MethodUnused] }
    ELSE EngineResponses

(* hist_data['Close'].iloc[-1] if the fetch gave a non-empty frame, else
   asset.purchase_price *)
CurrentPriceNoFallback(asset, d) ==
    IF Usable(d) THEN d.data[Len(d.data)] ELSE 0
CurrentPrice(asset, d) ==
    IF Usable(d) THEN d.data[Len(d.data)] ELSE asset.purchase_price

(* The loop "for asset in self.portfolio.assets" of calculate_total_value from
   holding i on, with total accumulated so far: every way it can end, as
   [total, cache, fetched]. *)
RECURSIVE TotalValueLoop(_, _, _, _, _)
TotalValueLoop(assets, i, c, total, fetched) ==
    IF i > Len(assets)
    THEN { [total |-> total, cache |-> c, fetched |-> fetched] }
    ELSE UNION {
           LET t == GetTickerData(c, assets[i].symbol, P1d, resp)
           IN  TotalValueLoop(assets, i + 1, t.cache,
                              total + assets[i].quantity * CurrentPrice(assets[i], t.d),
                              Append(fetched, t.d)) :
           resp \in ResponsesFor(c, assets[i].symbol, P1d) }

(* calculate_total_value *)
CalculateTotalValue(assets, c) == TotalValueLoop(assets, 1, c, 0, <<>>)

(* round(num / den, 0) to the nearest integer, ties to the even one *)
RoundHalfEven(num, den) ==
    LET q == num \div den
        r2 == 2 * (num % den)
    IN  IF r2 < den THEN q
        ELSE IF r2 > den THEN q + 1
        ELSE IF q % 2 = 0 THEN q ELSE q + 1

RECURSIVE SumSeq(_)
SumSeq(q) == IF q = <<>> THEN 0 ELSE q[1] + SumSeq(Tail(q))

(* The second loop of calculate_asset_allocation from holding i on: every way
   it can end, as [cache, fetched, values], values[i] the asset_value of holding i. *)
RECURSIVE AllocationLoop(_, _, _, _, _)
AllocationLoop(assets, i, c, fetched, values) ==
    IF i > Len(assets)
    THEN { [cache |-> c, fetched |-> fetched, values |-> values] }
    ELSE UNION {
           LET t == GetTickerData(c, assets[i].symbol, P1d, resp)
           IN  AllocationLoop(assets, i + 1, t.cache, Append(fetched, t.d),
                              Append(values,
                                     assets[i].quantity * CurrentPrice(assets[i], t.d))) :
           resp \in ResponsesFor(c, assets[i].symbol, P1d) }

(* {k: round(v, 2)}: per asset type the percentage of total_value, in
   hundredths of a percent *)
AllocationOf(assets, values, total_value) ==
    [ t \in { assets[i].asset_type : i \in 1..Len(assets) } |->
        RoundHalfEven(
          10000 * SumSeq([ i \in 1..Len(assets) |->
                             IF assets[i].asset_type = t THEN values[i] ELSE 0 ]),
          total_value) ]

(* calculate_asset_allocation: every way it can end, as
   [total, allocation, cache, fetched, fetched2] *)
AssetAllocationNoGuard(assets, c) ==
    UNION {
      { [total |-> tv.total,
         allocation |-> [ t \in { assets[i].asset_type : i \in 1..Len(assets) } |->
                            IF tv.total > 0 THEN AllocationOf(assets, a.values, tv.total)[t]
                            ELSE 0 ],
         cache |-> a.cache, fetched |-> tv.fetched, fetched2 |-> a.fetched] :
        a \in AllocationLoop(assets, 1, tv.cache, <<>>, <<>>) } :
      tv \in CalculateTotalValue(assets, c) }
CalculateAssetAllocation(assets, c) ==
    UNION {
      IF tv.total = 0
      THEN { [total |-> 0, allocation |-> << >>, cache |-> tv.cache,
              fetched |-> tv.fetched, fetched2 |-> <<>>] }
      ELSE { [total |-> tv.total,
              allocation |-> AllocationOf(assets, a.values, tv.total),
              cache |-> a.cache, fetched |-> tv.fetched, fetched2 |-> a.fetched] :
             a \in AllocationLoop(assets, 1, tv.cache, <<>>, <<>>) } :
      tv \in CalculateTotalValue(assets, c) }

NoResult ==
    [op |-> "none", status |-> "ok", total |-> 0, allocation |-> << >>,
     fetched |-> <<>>, fetched2 |-> <<>>, suggestions |-> <<>>,
     values |-> <<>>, number_of_assets |-> 0,
     scenarios |-> <<>>, results |-> <<>>,
     confidence |-> 0, returns |-> <<>>, var_amount |-> 0, var_percentage |-> 0,
     samples |-> <<>>, optimal |-> 0,
     beta |-> "zero", sharpe_ratio |-> "zero", volatility |-> "zero",
     total_cached_symbols |-> 0, oldest_cache |-> <<>>, newest_cache |-> <<>>,
     active_symbols |-> 0,
     resp |-> << >>, tried |-> <<>>, bars |-> <<>>, key |-> <<>>]

DoCalculateTotalValue ==
    \E out \in CalculateTotalValue(portfolio, cache) :
        /\ cache' = out.cache
        /\ res' = [NoResult EXCEPT !.op = "total_value", !.total = out.total,
                                   !.fetched = out.fetched]
        /\ UNCHANGED <<portfolio, cacheVars>>

DoCalculateAssetAllocation ==
    \E out \in CalculateAssetAllocation(portfolio, cache) :
        /\ cache' = out.cache
        /\ res' = [NoResult EXCEPT !.op = "asset_allocation", !.total = out.total,
                                   !.allocation = out.allocation,
                                   !.fetched = out.fetched, !.fetched2 = out.fetched2]
        /\ UNCHANGED <<portfolio, cacheVars>>

(* calculate_portfolio_metrics on cache c: total_value, the allocation, the
   "value" of each entry of "assets", number_of_assets, and the cache and the
   fetches made (none).  The amounts of the model are whole cents, which
   round(..., 2) leaves as they are. *)
PortfolioMetricsLive(assets, c) ==
    LET n == Len(assets)
        values == [ i \in 1..n |->
                      assets[i].quantity * CurrentPrice(assets[i], Frame(<<MaxClose>>)) ]
    IN  [total |-> SumSeq(values), values |-> values, number_of_assets |-> n,
         allocation |-> << >>,
         cache |-> IF n = 0 THEN c ELSE Put(c, CacheKey(assets[1].symbol, P1d), <<MaxClose>>),
         fetched |-> [ i \in 1..n |-> Frame(<<MaxClose>>) ]]
PortfolioMetrics(assets, c) ==
    LET n == Len(assets)
        values == [ i \in 1..n |-> assets[i].quantity * assets[i].purchase_price ]
        total_value == SumSeq(values)
    IN  [total |-> total_value, values |-> values, number_of_assets |-> n,
         allocation |-> [ t \in { assets[i].asset_type : i \in 1..n } |->
                            IF total_value > 0
                            THEN AllocationOf(assets, values, total_value)[t] ELSE 0 ],
         cache |-> c,
         fetched |-> <<>>]

DoCalculatePortfolioMetrics ==
    LET out == PortfolioMetrics(portfolio, cache)
    IN  /\ cache' = out.cache
        /\ res' = [NoResult EXCEPT !.op = "portfolio_metrics", !.total = out.total,
                                   !.allocation = out.allocation,
                                   !.values = out.values,
                                   !.number_of_assets = out.number_of_assets,
                                   !.fetched = out.fetched]
        /\ UNCHANGED <<portfolio, cacheVars>>

Abs(x) == IF x < 0 THEN -x ELSE x

(* target_allocation, in the order of the dict, in hundredths of a percent *)
TargetAllocation ==
    << [asset_type |-> "stock", target |-> TargetStock * Hundredths],
       [asset_type |-> "bond", target |-> TargetBond * Hundredths],
       [asset_type |-> "etf", target |-> TargetEtf * Hundredths] >>

(* current_allocation.get(asset_type, 0.0) *)
CurrentOf(current_allocation, asset_type) ==
    IF asset_type \in DOMAIN current_allocation
    THEN current_allocation[asset_type] ELSE 0

(* abs(difference) > 5 *)
NeedsSuggestionInclusive(difference) ==
    Abs(difference) >= RebalanceThreshold * Hundredths
NeedsSuggestion(difference) ==
    Abs(difference) > RebalanceThreshold * Hundredths

(* "buy" if difference > 0 else "sell" *)
SuggestedAction(difference) == IF difference > 0 THEN "buy" ELSE "sell"

(* the dict appended for one target *)
Suggestion(current_allocation, t) ==
    LET current == CurrentOf(current_allocation, t.asset_type)
        difference == t.target - current
    IN  [asset_type |-> t.asset_type,
         current_percentage |-> current,
         target_percentage |-> t.target,
         suggested_action |-> SuggestedAction(difference),
         adjustment_needed |-> Abs(difference)]

(* the loop over target_allocation.items() *)
Suggestions(current_allocation) ==
    LET kept == SelectSeq(TargetAllocation,
                   LAMBDA t : NeedsSuggestion(t.target -
                                  CurrentOf(current_allocation, t.asset_type)))
    IN  [ k \in 1..Len(kept) |-> Suggestion(current_allocation, kept[k]) ]

(* generate_rebalancing_suggestions *)
DoGenerateRebalancingSuggestions ==
    \E out \in CalculateAssetAllocation(portfolio, cache) :
        /\ cache' = out.cache
        /\ res' = [NoResult EXCEPT !.op = "rebalancing", !.total = out.total,
                                   !.allocation = out.allocation,
                                   !.fetched = out.fetched, !.fetched2 = out.fetched2,
                                   !.suggestions = Suggestions(out.allocation)]
        /\ UNCHANGED <<portfolio, cacheVars>>

(* The allocations calculate_asset_allocation may hand over go beyond those of
   the portfolios within the bounds: every mapping of some target types to 0
   or 100 percent or to a percentage at, or within MaxEps hundredths of, a
   threshold of the type's target. *)
AllocationPercentages(t) ==
    { 0, 100 * Hundredths }
    \cup { t.target + sign * RebalanceThreshold * Hundredths + e :
             sign \in {-1, 1}, e \in -MaxEps..MaxEps }

(* the allocation with percentage v[k] for target k, the type left out where
   v[k] is -1 *)
AllocationFrom(v) ==
    [ type \in { TargetAllocation[k].asset_type :
                   k \in { n \in 1..Len(TargetAllocation) : v[n] # -1 } } |->
        v[CHOOSE k \in 1..Len(TargetAllocation) : TargetAllocation[k].asset_type = type] ]

AllocationInputs ==
    { AllocationFrom(<<s, b, e>>) :
        s \in {-1} \cup AllocationPercentages(TargetAllocation[1]),
        b \in {-1} \cup AllocationPercentages(TargetAllocation[2]),
        e \in {-1} \cup AllocationPercentages(TargetAllocation[3]) }

(* generate_rebalancing_suggestions from line 234 on, on a given allocation *)
DoSuggestFor ==
    \E a \in AllocationInputs :
        /\ res' = [NoResult EXCEPT !.op = "rebalancing", !.allocation = a,
                                   !.suggestions = Suggestions(a)]
        /\ UNCHANGED <<portfolio, cache, cacheVars>>

(* RiskManagement._get_ticker_data: yf.download, then the chart endpoint whose
   frame is returned as built (no dropna, possibly empty); every exception
   ends in "return None", so retry_on_failure returns after its first call. *)
RmResponses ==
    { [m1 |-> MethodRaise, m2 |-> MethodUnused] }
    \cup { [m1 |-> MethodFrame(s), m2 |-> MethodUnused] : s \in StoreSeries \ {<<>>} }
    \cup { [m1 |-> MethodFrame(<<>>), m2 |-> m] :
             m \in { MethodRaise } \cup { MethodFrame(s) : s \in StoreSeries } }

RmGetTickerData(resp) ==
    IF resp.m1.kind = "raise" THEN NoneData
    ELSE IF resp.m1.data # <<>> THEN Frame(resp.m1.data)
    ELSE IF resp.m2.kind = "frame" THEN Frame(resp.m2.data)
    ELSE NoneData

(* _calculate_portfolio_value: every way it can end, as [total, fetched] *)
RECURSIVE RmValueLoop(_, _, _, _)
RmValueLoop(assets, i, total, fetched) ==
    IF i > Len(assets)
    THEN { [total |-> total, fetched |-> fetched] }
    ELSE UNION {
           LET d == RmGetTickerData(resp)
           IN  RmValueLoop(assets, i + 1,
                           total + assets[i].quantity * CurrentPrice(assets[i], d),
                           Append(fetched, d)) :
           resp \in RmResponses }

RmCalculatePortfolioValue(assets) == RmValueLoop(assets, 1, 0, <<>>)

(* _get_historical_returns: per holding, ticker.history either raises (the
   holding is skipped) or gives a frame whose Close column, possibly empty,
   becomes the column returns[asset.symbol]. *)
HistOutcomes == { MethodRaise } \cup { MethodFrame(s) : s \in StoreSeries }

(* calculate_efficient_frontier on the histories hist (one per holding):
   "error" when the returns frame is empty, and when mean_returns, one entry
   per column, is multiplied by weights, one entry per holding, of another
   length; the sampled search otherwise. *)
EfficientFrontierStatus(assets, hist) ==
    LET kept == { i \in 1..Len(assets) : hist[i].kind = "frame" }
        columns == { assets[i].symbol : i \in kept }
        empty == columns = {} \/ \A i \in kept : hist[i].data = <<>>
    IN  IF empty THEN "error"
        ELSE IF Cardinality(columns) # Len(assets) THEN "error"
        ELSE "ok"

HistData(h) == IF h.kind = "frame" THEN Frame(h.data) ELSE NoneData

(* routes/portfolio.py builds a RiskManagement for each request and calls one
   operation on it: the object has served no request yet. *)
FreshRisk == res.op = "none"

DoRmCalculatePortfolioValue ==
    \E out \in RmCalculatePortfolioValue(portfolio) :
        /\ FreshRisk
        /\ res' = [NoResult EXCEPT !.op = "rm_portfolio_value", !.total = out.total,
                                   !.fetched = out.fetched]
        /\ UNCHANGED <<portfolio, cache, cacheVars>>

DoRmCalculateEfficientFrontier ==
    \E hist \in [1..Len(portfolio) -> HistOutcomes] :
        /\ FreshRisk
        /\ res' = [NoResult EXCEPT !.op = "rm_efficient_frontier",
                                   !.status = EfficientFrontierStatus(portfolio, hist),
                                   !.fetched = [i \in 1..Len(portfolio) |-> HistData(hist[i])]]
        /\ UNCHANGED <<portfolio, cache, cacheVars>>

(* The shocks of a scenario, in percent, and the scenarios: a dict from some
   symbols to a shock. *)
Shocks == { -MarketCrash, 0 }
Scenarios == UNION { [syms -> Shocks] : syms \in SUBSET Symbols }

(* the loop "for asset in self.portfolio.assets" of stress_test: the sum of
   asset_value * price_change, in hundredths of a cent *)
RECURSIVE ShockSum(_, _, _)
ShockSum(assets, scenario, i) ==
    IF i > Len(assets) THEN 0
    ELSE (IF assets[i].symbol \in DOMAIN scenario
          THEN assets[i].quantity * CurrentPrice(assets[i], NoneData)
                 * scenario[assets[i].symbol]
          ELSE 0)
         + ShockSum(assets, scenario, i + 1)

(* the dict appended for one scenario: scenario_value in hundredths of a
   cent, portfolio_value = round(scenario_value, 2) in cents and
   change_percentage in hundredths of a percent *)
ScenarioResultFromZero(assets, scenario, current_value) ==
    LET scenario_value == ShockSum(assets, scenario, 1)
    IN  [scenario |-> scenario,
         scenario_value |-> scenario_value,
         portfolio_value |-> RoundHalfEven(scenario_value, 100),
         change_percentage |->
             RoundHalfEven(100 * (scenario_value - 100 * current_value), current_value)]
ScenarioResult(assets, scenario, current_value) ==
    LET scenario_value == 100 * current_value + ShockSum(assets, scenario, 1)
    IN  [scenario |-> scenario,
         scenario_value |-> scenario_value,
         portfolio_value |-> RoundHalfEven(scenario_value, 100),
         change_percentage |->
             RoundHalfEven(100 * (scenario_value - 100 * current_value), current_value)]

(* stress_test once current_value is known.  With scenarios to go through,
   the division by a current_value of 0 raises ZeroDivisionError on Python
   floats (no live price in the sum), which ends as {"error": ...}, and gives
   nan or inf on numpy floats (a live price in the sum). *)
StressTestOn(assets, scenarios, value) ==
    IF value.total = 0 /\ scenarios # <<>>
    THEN [status |-> IF \E i \in 1..Len(assets) : Usable(value.fetched[i])
                     THEN "nan" ELSE "error",
          total |-> 0, fetched |-> value.fetched, results |-> <<>>]
    ELSE [status |-> "ok", total |-> value.total, fetched |-> value.fetched,
          results |-> [ k \in 1..Len(scenarios) |->
                          ScenarioResult(assets, scenarios[k], value.total) ]]

(* stress_test: every way it can end *)
StressTest(assets, scenarios) ==
    { StressTestOn(assets, scenarios, value) :
        value \in RmCalculatePortfolioValue(assets) }

DoRmStressTest ==
    /\ FreshRisk
    /\ \E scenarios \in SeqsUpTo(Scenarios, MaxScenarios) :
         \E out \in StressTest(portfolio, scenarios) :
            res' = [NoResult EXCEPT !.op = "rm_stress_test", !.status = out.status,
                                    !.total = out.total, !.fetched = out.fetched,
                                    !.scenarios = scenarios, !.results = out.results]
    /\ UNCHANGED <<portfolio, cache, cacheVars>>

(* A year of daily closes: up to MaxBars bars, the last one of today. *)
Histories == SeqsUpTo(Closes, MaxBars)

(* what _get_ticker_data(asset.symbol) may return: None or a frame, possibly
   empty *)
HistoryOutcomes == { NoneData } \cup { Frame(s) : s \in Histories }

(* Every close divides CloseDen: a return (c2 - c1) / c1 is kept as the integer
   CloseDen * (c2 - c1) / c1. *)
RECURSIVE Factorial(_)
Factorial(n) == IF n <= 1 THEN 1 ELSE n * Factorial(n - 1)
CloseDen == Factorial(MaxClose)

(* hist_data['Close'].pct_change().dropna(), times CloseDen *)
PctChange(s) ==
    [ k \in 1..(Len(s) - 1) |-> (CloseDen * (s[k + 1] - s[k])) \div s[k] ]

(* returns * weight, times CloseDen * portfolio_value: the weight is
   asset.quantity * asset.purchase_price / portfolio_value *)
WeightedReturns(asset, d) ==
    LET r == PctChange(d.data)
    IN  [ k \in 1..Len(r) |-> asset.quantity * asset.purchase_price * r[k] ]

(* pd.concat(returns_data, axis=1).sum(axis=1): the series are aligned on
   their dates, that is from their last bar backwards, and a date a series
   lacks adds nothing. *)
PortfolioReturns(assets, hist) ==
    LET used == { i \in 1..Len(assets) : Usable(hist[i]) }
        rets == [ i \in used |-> WeightedReturns(assets[i], hist[i]) ]
        n == IF used = {} THEN 0
             ELSE CHOOSE m \in { Len(rets[i]) : i \in used } :
                     \A i \in used : Len(rets[i]) <= m
        at(i, k) == IF Len(rets[i]) - (n - k) >= 1
                    THEN rets[i][Len(rets[i]) - (n - k)] ELSE 0
        RECURSIVE sum(_, _)
        sum(S, k) == IF S = {} THEN 0
                     ELSE LET i == CHOOSE j \in S : TRUE
                          IN  at(i, k) + sum(S \ {i}, k)
    IN  [ k \in 1..n |-> sum(used, k) ]

(* the values of a series in ascending order *)
RECURSIVE Sorted(_)
Sorted(q) ==
    IF q = <<>> THEN <<>>
    ELSE LET k == CHOOSE j \in 1..Len(q) : \A i \in 1..Len(q) : q[j] <= q[i]
             rest == [ i \in 1..(Len(q) - 1) |-> IF i < k THEN q[i] ELSE q[i + 1] ]
         IN  <<q[k]>> \o Sorted(rest)

(* np.percentile(x, p), times 100: linear interpolation at the position
   (n - 1) * p / 100 of the sorted values *)
Percentile(x, p) ==
    LET s == Sorted(x)
        h == (Len(s) - 1) * p
        lo == h \div 100 + 1
        frac == h % 100
    IN  IF frac = 0 THEN 100 * s[lo]
        ELSE 100 * s[lo] + frac * (s[lo + 1] - s[lo])

(* calculate_var once portfolio_value and the histories are known.  The
   amounts are in cents, the percentage in hundredths of a percent.  An empty
   portfolio_returns (no history of two bars) makes np.percentile raise or
   return nan, depending on the numpy at hand. *)
VarOn(assets, confidence, portfolio_value, hist) ==
    LET base == [status |-> "ok", total |-> portfolio_value, fetched |-> hist,
                 confidence |-> confidence, returns |-> <<>>,
                 var_amount |-> 0, var_percentage |-> 0]
        returns == PortfolioReturns(assets, hist)
        var == Percentile(returns, 100 - confidence)
    IN  IF \A i \in 1..Len(assets) : ~Usable(hist[i])
        THEN { [base EXCEPT !.status = "warning",
                            !.var_amount = RoundHalfEven(portfolio_value * FlatEstimate, 100)] }
        ELSE IF returns = <<>>
        THEN { [base EXCEPT !.status = "nan"], [base EXCEPT !.status = "error"] }
        ELSE { [base EXCEPT !.returns = returns,
                            !.var_amount = RoundHalfEven(Abs(var), 100 * CloseDen),
                            !.var_percentage =
                                RoundHalfEven(100 * Abs(var), portfolio_value * CloseDen)] }

(* calculate_var: every way it can end *)
RmCalculateVar(assets, confidence) ==
    UNION {
      IF value.total <= 0
      THEN { [status |-> "error", total |-> value.total, fetched |-> <<>>,
              confidence |-> confidence, returns |-> <<>>,
              var_amount |-> 0, var_percentage |-> 0] }
      ELSE UNION { VarOn(assets, confidence, value.total, hist) :
                     hist \in [1..Len(assets) -> HistoryOutcomes] } :
      value \in RmCalculatePortfolioValue(assets) }

ConfidenceLevels == { DefaultConfidence, 99 }

DoRmCalculateVar ==
    /\ FreshRisk
    /\ \E confidence \in ConfidenceLevels :
         \E out \in RmCalculateVar(portfolio, confidence) :
            res' = [NoResult EXCEPT !.op = "rm_var", !.status = out.status,
                                    !.total = out.total, !.fetched = out.fetched,
                                    !.confidence = out.confidence,
                                    !.returns = out.returns,
                                    !.var_amount = out.var_amount,
                                    !.var_percentage = out.var_percentage]
    /\ UNCHANGED <<portfolio, cache, cacheVars>>

(* portfolio_analyzer.PortfolioAnalyzer: its operations take the portfolio as
   an argument and read prices through DataCache.get_data, whose return value
   (None or a frame, possibly empty) is an input here; they keep nothing
   between calls, and each is taken from the initial state. *)
FirstCall == res.op = "none"

(* calculate_var of portfolio_analyzer.py on the get_data results data.  Its
   amount is not rounded: var_amount is kept times 100 * CloseDen.  Series of
   different lengths leave NaN in the concatenated frame, and no bar to
   compare leaves it empty, where np.percentile raises or returns nan. *)
PzCalculateVar(assets, confidence, data) ==
    LET used == { i \in 1..Len(assets) : Usable(data[i]) }
        value(i) == assets[i].quantity * data[i].data[Len(data[i].data)]
        priced == [ i \in 1..Len(assets) |->
                      IF i \in used
                      THEN [assets[i] EXCEPT !.purchase_price = data[i].data[Len(data[i].data)]]
                      ELSE [assets[i] EXCEPT !.quantity = 0] ]
        total_value == SumSeq([ i \in 1..Len(assets) |-> IF i \in used THEN value(i) ELSE 0 ])
        returns == PortfolioReturns(priced, data)
        base == [status |-> "ok", total |-> total_value, fetched |-> data,
                 confidence |-> confidence, returns |-> <<>>,
                 var_amount |-> 0, var_percentage |-> 0]
    IN  IF used = {} THEN { base }
        ELSE IF returns = <<>>
        THEN { [base EXCEPT !.status = "nan"], [base EXCEPT !.status = "raise"] }
        ELSE IF total_value = 0
                \/ \E i, j \in used : Len(data[i].data) # Len(data[j].data)
        THEN { [base EXCEPT !.status = "nan"] }
        ELSE { [base EXCEPT !.returns = returns,
                            !.var_amount = Abs(Percentile(returns, 100 - confidence)),
                            !.var_percentage =
                                RoundHalfEven(100 * Abs(Percentile(returns, 100 - confidence)),
                                              total_value * CloseDen)] }

DoPzCalculateVar ==
    /\ FirstCall
    /\ \E confidence \in ConfidenceLevels :
         \E data \in [1..Len(portfolio) -> HistoryOutcomes] :
          \E out \in PzCalculateVar(portfolio, confidence, data) :
            res' = [NoResult EXCEPT !.op = "pz_var", !.status = out.status,
                                    !.total = out.total, !.fetched = out.fetched,
                                    !.confidence = out.confidence,
                                    !.returns = out.returns,
                                    !.var_amount = out.var_amount,
                                    !.var_percentage = out.var_percentage]
    /\ UNCHANGED <<portfolio, cache, cacheVars>>

(* np.random.random(n): n draws from [0, 1), here in units of 1 / (MaxWeight
   + 1); the draw of all zeros, of probability 2^(-53 n), is left out. *)
RawWeights(n) == { w \in [1..n -> 0..MaxWeight] : \E i \in 1..n : w[i] > 0 }

(* The draws of a run of num_portfolios >= 1 rounds *)
Draws(n) == SeqsUpTo(RawWeights(n), MaxSamples) \ { <<>> }

(* One sampled portfolio on the return series rets (each times CloseDen, all of
   T entries).  weights / np.sum(weights) is kept as weights[i] over total.
   With p[k] the sum of weights[i] * rets[i][k]:
     portfolio_return = mean / (T * CloseDen * total), mean the sum of the p[k];
     excess is (portfolio_return - risk_free_rate) * 100 * T * CloseDen * total;
     variance is volatility^2 * T * (T - 1) * (CloseDen * total)^2,
   so that the Sharpe ratio is excess / sqrt(variance) times a positive number
   that is the same for all samples of the run. *)
Sample(rets, weights) ==
    LET n == Len(rets)
        T == Len(rets[1])
        total == SumSeq(weights)
        p == [ k \in 1..T |-> SumSeq([ i \in 1..n |-> weights[i] * rets[i][k] ]) ]
        mean == SumSeq(p)
    IN  [weights |-> weights, total |-> total,
         excess |-> 100 * mean - RiskFreeRate * T * CloseDen * total,
         variance |-> T * SumSeq([ k \in 1..T |-> p[k] * p[k] ]) - mean * mean]

(* sharpe of a >= sharpe of b, in floating point: a zero volatility gives
   +inf or -inf by the sign of the excess return, and nan, which compares
   false, when that is zero too. *)
SharpeGE(a, b) ==
    LET nan(x) == x.variance = 0 /\ x.excess = 0
        rank(x) == IF x.variance > 0 THEN 0 ELSE IF x.excess > 0 THEN 1 ELSE -1
    IN  /\ ~nan(a) /\ ~nan(b)
        /\ IF rank(a) # rank(b) THEN rank(a) > rank(b)
           ELSE IF rank(a) # 0 THEN TRUE
           ELSE IF a.excess >= 0 /\ b.excess <= 0 THEN TRUE
           ELSE IF a.excess < 0 /\ b.excess >= 0 THEN FALSE
           ELSE IF a.excess >= 0
           THEN FracGE(a.excess * a.excess, a.variance, b.excess * b.excess, b.variance)
           ELSE FracGE(b.excess * b.excess, b.variance, a.excess * a.excess, a.variance)

(* np.argmax(sharpe_list), and max(portfolios, key=...): the first sample no
   other exceeds; the first nan for np.argmax *)
ArgMin(samples) ==
    CHOOSE k \in 1..Len(samples) :
        /\ \A j \in 1..Len(samples) : SharpeGE(samples[j], samples[k])
        /\ \A i \in 1..(k - 1) : ~ \A j \in 1..Len(samples) : SharpeGE(samples[j], samples[i])
ArgMax(samples) ==
    CHOOSE k \in 1..Len(samples) :
        /\ \A j \in 1..Len(samples) : SharpeGE(samples[k], samples[j])
        /\ \A i \in 1..(k - 1) : ~ \A j \in 1..Len(samples) : SharpeGE(samples[i], samples[j])

(* the loop "for _ in range(num_portfolios)" and the choice of the optimal
   portfolio, on the return series rets and the draws of the run *)
FrontierSearch(rets, draws) ==
    LET samples == [ k \in 1..Len(draws) |-> Sample(rets, draws[k]) ]
    IN  [samples |-> samples, optimal |-> ArgMax(samples)]

(* The histories of the search: ticker.history raises, or gives the MaxBars
   daily closes of the period. *)
FrontierHistories ==
    { MethodRaise } \cup { MethodFrame(s) : s \in { h \in Histories : Len(h) = MaxBars } }

(* calculate_efficient_frontier of risk_management.py: every way it can end.
   The weights are drawn per holding (line 158) and meet one return series per
   column of the returns frame. *)
RmCalculateEfficientFrontier(assets, hist) ==
    IF EfficientFrontierStatus(assets, hist) = "error"
    THEN { [status |-> "error", samples |-> <<>>, optimal |-> 0] }
    ELSE { [status |-> "ok", samples |-> s.samples, optimal |-> s.optimal] :
             s \in { FrontierSearch([ i \in 1..Len(assets) |-> PctChange(hist[i].data) ], draws) :
                       draws \in Draws(Len(assets)) } }

DoRmSearchEfficientFrontier ==
    /\ FreshRisk
    /\ \E hist \in [1..Len(portfolio) -> FrontierHistories] :
         \E out \in RmCalculateEfficientFrontier(portfolio, hist) :
            res' = [NoResult EXCEPT !.op = "rm_efficient_frontier",
                                    !.status = out.status,
                                    !.fetched = [i \in 1..Len(portfolio) |-> HistData(hist[i])],
                                    !.samples = out.samples, !.optimal = out.optimal]
    /\ UNCHANGED <<portfolio, cache, cacheVars>>

(* the subsequence of q at the indices in S *)
RECURSIVE Pick(_, _, _)
Pick(q, S, i) ==
    IF i > Len(q) THEN <<>>
    ELSE (IF i \in S THEN <<q[i]>> ELSE <<>>) \o Pick(q, S, i + 1)

(* calculate_efficient_frontier of portfolio_analyzer.py on the get_data
   results data: the weights are drawn per symbol with usable data, the dict
   returns_data keeping for a symbol held twice its first place and its last
   series. *)
PzCalculateEfficientFrontier(assets, data) ==
    LET same(i) == { j \in 1..Len(assets) :
                       Usable(data[j]) /\ assets[j].symbol = assets[i].symbol }
        used == { i \in 1..Len(assets) :
                    Usable(data[i]) /\ \A j \in same(i) : j >= i }
        last(i) == CHOOSE j \in same(i) : \A k \in same(i) : k <= j
        rets == Pick([ i \in 1..Len(assets) |->
                         IF Usable(data[i]) THEN PctChange(data[last(i)].data) ELSE <<>> ],
                     used, 1)
    IN  IF used = {}
        THEN { [status |-> "empty", samples |-> <<>>, optimal |-> 0] }
        ELSE { [status |-> "ok", samples |-> s.samples, optimal |-> s.optimal] :
                 s \in { FrontierSearch(rets, draws) : draws \in Draws(Len(rets)) } }

DoPzCalculateEfficientFrontier ==
    /\ FirstCall
    /\ \E hist \in [1..Len(portfolio) -> FrontierHistories] :
         \E out \in PzCalculateEfficientFrontier(portfolio,
                        [i \in 1..Len(portfolio) |-> HistData(hist[i])]) :
            res' = [NoResult EXCEPT !.op = "pz_efficient_frontier",
                                    !.status = out.status,
                                    !.fetched = [i \in 1..Len(portfolio) |-> HistData(hist[i])],
                                    !.samples = out.samples, !.optimal = out.optimal]
    /\ UNCHANGED <<portfolio, cache, cacheVars>>

P1y == <<"1", "y">>

(* the symbol of the market index, "^GSPC" *)
Market == <<"^", "G", "S", "P", "C">>

(* The loop of _calculate_portfolio_returns from holding i on: every way it
   can end, as the cache, the fetches and the list returns. *)
RECURSIVE ReturnsLoop(_, _, _, _, _)
ReturnsLoop(assets, i, c, fetched, returns) ==
    IF i > Len(assets)
    THEN { [cache |-> c, fetched |-> fetched, returns |-> returns] }
    ELSE UNION {
           LET t == GetTickerData(c, assets[i].symbol, P1y, resp)
           IN  ReturnsLoop(assets, i + 1, t.cache, Append(fetched, t.d),
                           IF Usable(t.d) THEN Append(returns, PctChange(t.d.data))
                           ELSE returns) :
           resp \in ResponsesFor(c, assets[i].symbol, P1y) }

(* np.mean(returns, axis=0), each entry times CloseDen * Len(returns); the
   empty array when the list is empty or, through the bare except, when its
   series are not of one length *)
MeanReturns(returns) ==
    IF returns = <<>> \/ \E i, j \in 1..Len(returns) : Len(returns[i]) # Len(returns[j])
    THEN <<>>
    ELSE [ k \in 1..Len(returns[1]) |->
             SumSeq([ i \in 1..Len(returns) |-> returns[i][k] ]) ]

Constant(x) == \A i, j \in 1..Len(x) : x[i] = x[j]

(* _calculate_beta: 0.0 without returns on either side, on a failure of
   np.cov (series of different lengths) and on a zero market variance *)
Beta(portfolio_returns, market_returns) ==
    IF Len(portfolio_returns) = 0 \/ Len(market_returns) = 0 THEN "zero"
    ELSE IF Len(portfolio_returns) # Len(market_returns) THEN "zero"
    ELSE IF Constant(market_returns) THEN "zero"
    ELSE "number"

(* _calculate_sharpe_ratio: 0.0 without returns and on a zero deviation *)
SharpeRatio(returns) ==
    IF Len(returns) = 0 THEN "zero"
    ELSE IF Constant(returns) THEN "zero"
    ELSE "number"

(* round(np.std(portfolio_returns) * np.sqrt(252), 2): np.std of the empty
   array is nan *)
Volatility(returns) ==
    IF Len(returns) = 0 THEN "nan"
    ELSE IF Constant(returns) THEN "zero"
    ELSE "number"

(* calculate_risk_metrics on cache c: every way it can end.  Its helpers
   swallow their own failures, so that the except branch, the only one to set
   an error field, is not taken. *)
CalculateRiskMetrics(assets, c) ==
    UNION {
      { LET m == GetTickerData(r.cache, Market, P1y, resp)
            portfolio_returns == MeanReturns(r.returns)
            market_returns == IF Usable(m.d) THEN PctChange(m.d.data) ELSE <<>>
        IN  [status |-> "ok", cache |-> m.cache, fetched |-> r.fetched,
             beta |-> Beta(portfolio_returns, market_returns),
             sharpe_ratio |-> SharpeRatio(portfolio_returns),
             volatility |-> Volatility(portfolio_returns)] :
        resp \in ResponsesFor(r.cache, Market, P1y) } :
      r \in ReturnsLoop(assets, 1, c, <<>>, <<>>) }

DoCalculateRiskMetrics ==
    /\ FirstCall
    /\ \E out \in CalculateRiskMetrics(portfolio, cache) :
         /\ cache' = out.cache
         /\ res' = [NoResult EXCEPT !.op = "risk_metrics", !.status = out.status,
                                    !.fetched = out.fetched, !.beta = out.beta,
                                    !.sharpe_ratio = out.sharpe_ratio,
                                    !.volatility = out.volatility]
    /\ UNCHANGED <<portfolio, cacheVars>>

(* get_cache_stats on the files and the timestamps of the store: the number
   of "*.pkl" files, the least and the greatest st_mtime (<<>> stands for the
   default None) and len(last_request_time).  cache_size_mb, a sum of file
   sizes, is left out. *)
MTimes(files) == { files[f].mtime : f \in DOMAIN files }
CacheStatsPerSymbol(files, lrt) ==
    [total_cached_symbols |->
         Cardinality({ s \in Symbols : \E f \in DOMAIN files : GlobSymbol(s, f) }),
     oldest_cache |-> IF files = << >> THEN <<>>
                      ELSE << CHOOSE t \in MTimes(files) : \A u \in MTimes(files) : t <= u >>,
     newest_cache |-> IF files = << >> THEN <<>>
                      ELSE << CHOOSE t \in MTimes(files) : \A u \in MTimes(files) : t >= u >>,
     active_symbols |-> Cardinality(DOMAIN lrt)]
CacheStats(files, lrt) ==
    [total_cached_symbols |-> Cardinality(DOMAIN files),
     oldest_cache |-> IF files = << >> THEN <<>>
                      ELSE << CHOOSE t \in MTimes(files) : \A u \in MTimes(files) : t <= u >>,
     newest_cache |-> IF files = << >> THEN <<>>
                      ELSE << CHOOSE t \in MTimes(files) : \A u \in MTimes(files) : t >= u >>,
     active_symbols |-> Cardinality(DOMAIN lrt)]

GetCacheStats ==
    /\ LET stats == CacheStats(cacheFiles, lastRequestTime)
       IN  res' = [NoResult EXCEPT !.op = "cache_stats",
                                   !.total_cached_symbols = stats.total_cached_symbols,
                                   !.oldest_cache = stats.oldest_cache,
                                   !.newest_cache = stats.newest_cache,
                                   !.active_symbols = stats.active_symbols]
    /\ UNCHANGED <<cacheVars, portfolio, cache>>

---------------------------------------------------------------------------
(* Concurrent get_data calls for one (symbol, period), on one cache file
   and without locks.  The calls overlap within seconds, so that an existing
   file is fresh (lines 61-63) throughout.  conc.content is what the file
   holds, cell by cell; conc.provided collects the series the provider has
   returned. *)

Procs == 1..MaxProcs

(* pickle.dump(data, f): a header cell telling the number of bars (kept
   negative), then one cell per bar; the file object hands the pickle to the
   file in several writes, here one per cell. *)
Dump(s) == << -Len(s) >> \o s

(* pickle.load(f): the series of a content that starts with a header and
   holds all the bars it announces; anything after them is not read.  Any
   other content raises. *)
Loadable(content) ==
    /\ Len(content) >= 1
    /\ content[1] < 0
    /\ Len(content) >= 1 - content[1]
Load(content) == SubSeq(content, 2, 1 - content[1])

(* a write of cell c at offset k - 1 of a file: the gap a truncation by
   another writer left before it reads as zeros *)
Overlay(content, k, c) ==
    [ i \in 1..Max(Len(content), k) |->
        IF i = k THEN c ELSE IF i <= Len(content) THEN content[i] ELSE 0 ]

StartedCall == [pc |-> "start", d |-> NoneData, offset |-> 0]

SetProc(p, rec) == [conc EXCEPT !.procs[p] = rec]

(* "if cache_file.exists()" and the age test *)
CheckCache(p) ==
    /\ conc.procs[p].pc = "start"
    /\ conc' = SetProc(p, [conc.procs[p] EXCEPT
                             !.pc = IF conc.exists THEN "read" ELSE "fetch"])
    /\ UNCHANGED <<now, cacheFiles, lastRequestTime, providerLog, ret, engineVars>>

(* open(cache_file, 'rb') and pickle.load, returning the data; on an
   exception the call goes on to fetch *)
ReadCache(p) ==
    /\ conc.procs[p].pc = "read"
    /\ conc' = SetProc(p, IF Loadable(conc.content)
                          THEN [conc.procs[p] EXCEPT !.pc = "done",
                                                     !.d = Frame(Load(conc.content))]
                          ELSE [conc.procs[p] EXCEPT !.pc = "fetch"])
    /\ UNCHANGED <<now, cacheFiles, lastRequestTime, providerLog, ret, engineVars>>

(* data = self._fetch_data(symbol, period): None, or a series of the
   provider; an unusable result is returned at once *)
FetchNew(p) ==
    /\ conc.procs[p].pc = "fetch"
    /\ \E d \in { NoneData } \cup { Frame(s) : s \in SeriesSet } :
         conc' = [SetProc(p, [conc.procs[p] EXCEPT
                                !.pc = IF Usable(d) THEN "open" ELSE "done",
                                !.d = d])
                    EXCEPT !.provided = IF Usable(d) THEN @ \cup { d.data } ELSE @]
    /\ UNCHANGED <<now, cacheFiles, lastRequestTime, providerLog, ret, engineVars>>

(* open(cache_file, 'wb'): the file is created or truncated in place *)
OpenForWrite(p) ==
    /\ conc.procs[p].pc = "open"
    /\ conc' = [SetProc(p, [conc.procs[p] EXCEPT !.pc = "write", !.offset = 0])
                  EXCEPT !.exists = TRUE, !.content = <<>>]
    /\ UNCHANGED <<now, cacheFiles, lastRequestTime, providerLog, ret, engineVars>>

(* one write of pickle.dump, at the offset of the writer's own file object;
   after the last one the call returns the data fetched *)
WriteChunk(p) ==
    /\ conc.procs[p].pc = "write"
    /\ LET cells == Dump(conc.procs[p].d.data)
           k == conc.procs[p].offset + 1
       IN  conc' = [SetProc(p, [conc.procs[p] EXCEPT
                                  !.pc = IF k = Len(cells) THEN "done" ELSE "write",
                                  !.offset = k])
                      EXCEPT !.content = Overlay(conc.content, k, cells[k])]
    /\ UNCHANGED <<now, cacheFiles, lastRequestTime, providerLog, ret, engineVars>>

---------------------------------------------------------------------------
(* One fetch, whatever each method of the chain would answer if asked *)

(* what yf.download and the chart endpoint would answer *)
ChainResponses ==
    [primary : { [kind |-> "raise", data |-> <<>>] }
                 \cup { [kind |-> "frame", data |-> s] : s \in StoreSeries },
     direct : DirectOutcomes]

(* what ticker.history, the chart endpoint and the scraped page would answer *)
MethodOutcomes == { MethodRaise } \cup { MethodFrame(s) : s \in SeriesSet }
TickerResponses == [m1 : MethodOutcomes, m2 : MethodOutcomes, m3 : MethodOutcomes]

(* The methods an uncached _get_ticker_data of portfolio_analysis.py asks, in
   order: each try block returns from the function on a non-empty frame and
   falls through to the next otherwise. *)
TickerMethodsTried(resp) ==
    LET yields(m) == m.kind = "frame" /\ m.data # <<>>
    IN  <<"m1">> \o (IF yields(resp.m1) THEN <<>>
                     ELSE <<"m2">> \o (IF yields(resp.m2) THEN <<>> ELSE <<"m3">>))

(* _fetch_data of data_cache.py on its own; tried counts the requests made *)
DoFetchData ==
    /\ FirstCall
    /\ \E resp \in ChainResponses :
         LET f == FetchData(resp, now)
         IN  res' = [NoResult EXCEPT !.op = "fetch_data", !.resp = resp,
                                     !.fetched = <<f.d>>,
                                     !.tried = SubSeq(<<"primary", "direct">>, 1, Len(f.times))]
    /\ UNCHANGED <<portfolio, cache, cacheVars>>

(* _get_ticker_data of portfolio_analysis.py on a new analyzer *)
DoGetTickerData ==
    /\ FirstCall
    /\ \E symbol \in Symbols, resp \in TickerResponses :
         LET t == GetTickerData(cache, symbol, P1y, resp)
         IN  /\ cache' = t.cache
             /\ res' = [NoResult EXCEPT !.op = "get_ticker_data", !.resp = resp,
                                        !.fetched = <<t.d>>,
                                        !.tried = TickerMethodsTried(resp)]
    /\ UNCHANGED <<portfolio, cacheVars>>

---------------------------------------------------------------------------
(* The frame built from the answer of the chart endpoint.  The answer lists
   timestamps, in increasing order, and per timestamp a close that may be
   null. *)

Bars == [time : 1..MaxBars, close : Closes, null : BOOLEAN]

Payloads ==
    { q \in SeqsUpTo(Bars, MaxLen) :
        \A i \in 1..(Len(q) - 1) : q[i].time < q[i + 1].time }

(* df.dropna() *)
DropNa(q) == SelectSeq(q, LAMBDA b : ~b.null)

(* data_cache.py: pd.DataFrame({...}, index=pd.to_datetime(timestamps)) is
   returned as it is *)
StoreDirectFrame(q) == q

(* portfolio_analysis.py: df = df.dropna(), returned if not empty *)
AnalyzerDirectFrame(q) == DropNa(q)

(* risk_management.py: the frame is returned as it is *)
RiskDirectFrame(q) == q

(* _fetch_data after an empty yf.download, the chart endpoint answering q *)
DoFetchDirect ==
    /\ FirstCall
    /\ \E q \in Payloads :
         res' = [NoResult EXCEPT !.op = "fetch_direct", !.resp = q,
                                 !.bars = StoreDirectFrame(q)]
    /\ UNCHANGED <<portfolio, cache, cacheVars>>

(* method 2 of PortfolioAnalyzer._get_ticker_data, the endpoint answering q *)
DoTickerDirect ==
    /\ FirstCall
    /\ \E q \in Payloads :
         res' = [NoResult EXCEPT !.op = "ticker_direct", !.resp = q,
                                 !.bars = AnalyzerDirectFrame(q)]
    /\ UNCHANGED <<portfolio, cache, cacheVars>>

(* RiskManagement._get_ticker_data after an empty yf.download *)
DoRiskTickerDirect ==
    /\ FirstCall
    /\ \E q \in Payloads :
         res' = [NoResult EXCEPT !.op = "risk_ticker_direct", !.resp = q,
                                 !.bars = RiskDirectFrame(q)]
    /\ UNCHANGED <<portfolio, cache, cacheVars>>

---------------------------------------------------------------------------
(* The in-memory cache of one analyzer under lookups and clears *)

(* _get_ticker_data(symbol, period), as any operation of the analyzer makes
   it *)
DoLookup ==
    \E symbol \in Symbols, period \in Periods :
    \E resp \in ResponsesFor(cache, symbol, period) :
        LET t == GetTickerData(cache, symbol, period, resp)
        IN  /\ cache' = t.cache
            /\ res' = [NoResult EXCEPT !.op = "lookup", !.fetched = <<t.d>>,
                                       !.key = CacheKey(symbol, period),
                                       !.resp = resp]
            /\ UNCHANGED <<portfolio, cacheVars>>

(* PortfolioAnalyzer.clear_cache(symbol): the keys k with k.startswith(symbol)
   are removed; symbol = <<>> stands for None or "" (both falsy) *)
AnalyzerClearCache(symbol) ==
    /\ cache' = IF symbol # <<>>
                THEN Drop(cache, { k \in DOMAIN cache : IsPrefix(symbol, k) })
                ELSE << >>
    /\ res' = [NoResult EXCEPT !.op = "clear_cache"]
    /\ UNCHANGED <<portfolio, cacheVars>>

Init ==
    /\ now = 0
    /\ cacheFiles = << >>
    /\ lastRequestTime = << >>
    /\ providerLog = << >>
    /\ conc = NoRace
    /\ ret = NoCall
    /\ portfolio = << >>
    /\ cache = << >>
    /\ res = NoResult

Next ==
    \/ \E symbol \in Symbols, period \in Periods : GetData(symbol, period)
    \/ \E symbol \in Symbols \cup { <<>> } : ClearCache(symbol)
    \/ \E d \in {1, CacheDuration - 1} : Advance(d)

Spec == Init /\ [][Next]_vars

(* The store with its statistics endpoint *)
NextStats ==
    \/ Next
    \/ GetCacheStats

SpecStats == Init /\ [][NextStats]_vars

(* MaxProcs calls of get_data for the same symbol and period, started together
   on a store without an entry *)
InitConcurrent ==
    /\ now = 0
    /\ cacheFiles = << >>
    /\ lastRequestTime = << >>
    /\ providerLog = << >>
    /\ conc = [NoRace EXCEPT !.procs = [p \in Procs |-> StartedCall]]
    /\ ret = NoCall
    /\ portfolio = << >>
    /\ cache = << >>
    /\ res = NoResult

NextConcurrent ==
    \E p \in Procs :
        \/ CheckCache(p)
        \/ ReadCache(p)
        \/ FetchNew(p)
        \/ OpenForWrite(p)
        \/ WriteChunk(p)

SpecConcurrent == InitConcurrent /\ [][NextConcurrent]_vars

(* One fetch of the store or of the analyzer, nothing cached *)
NextFetch ==
    \/ DoFetchData
    \/ DoGetTickerData

SpecFetch == Init /\ [][NextFetch]_vars

(* The frames of the chart endpoint *)
NextSeries ==
    \/ DoFetchDirect
    \/ DoTickerDirect
    \/ DoRiskTickerDirect

SpecSeries == Init /\ [][NextSeries]_vars

NextAnalyzerCache ==
    \/ DoLookup
    \/ \E symbol \in Symbols \cup { <<>> } : AnalyzerClearCache(symbol)

SpecAnalyzerCache == Init /\ [][NextAnalyzerCache]_vars

(* The two caches.  The store and an analyzer share no state, so a behaviour
   works on one of them, the other staying as constructed. *)
StoreUntouched ==
    /\ now = 0 /\ cacheFiles = << >> /\ lastRequestTime = << >>
    /\ providerLog = << >> /\ ret = NoCall
AnalyzerUntouched == cache = << >> /\ res = NoResult

NextCaches ==
    \/ AnalyzerUntouched /\ Next
    \/ StoreUntouched /\ NextAnalyzerCache

SpecCaches == Init /\ [][NextCaches]_vars

(* The engines, on every portfolio within the bounds *)
InitEngine ==
    /\ now = 0
    /\ cacheFiles = << >>
    /\ lastRequestTime = << >>
    /\ providerLog = << >>
    /\ conc = NoRace
    /\ ret = NoCall
    /\ portfolio \in Portfolios
    /\ cache = << >>
    /\ res = NoResult

NextEngine ==
    \/ DoCalculateTotalValue
    \/ DoCalculateAssetAllocation
    \/ DoCalculatePortfolioMetrics

SpecEngine == InitEngine /\ [][NextEngine]_vars

(* RiskManagement(portfolio): an object of its own, without a cache *)
NextRisk ==
    \/ DoRmCalculatePortfolioValue
    \/ DoRmCalculateEfficientFrontier
    \/ DoRmStressTest

SpecRisk == InitEngine /\ [][NextRisk]_vars

(* Rebalancing: the analyzer of a portfolio without holdings, and the
   suggestions for given allocations *)
InitRebalance ==
    /\ now = 0
    /\ cacheFiles = << >>
    /\ lastRequestTime = << >>
    /\ providerLog = << >>
    /\ conc = NoRace
    /\ ret = NoCall
    /\ portfolio = << >>
    /\ cache = << >>
    /\ res = NoResult

NextRebalance ==
    \/ DoGenerateRebalancingSuggestions
    \/ DoSuggestFor

SpecRebalance == InitRebalance /\ [][NextRebalance]_vars

(* Value at risk reads of a holding its symbol (for the fetches), quantity and
   purchase_price: the portfolios are those of holdings of one type and of
   symbols in a fixed order. *)
VarPortfolios ==
    { p \in Portfolios :
        \A i \in 1..Len(p) :
            /\ p[i].asset_type = "stock"
            /\ p[i].symbol = (IF i = 1 THEN <<"A">> ELSE <<"A", "B">>) }

InitVar ==
    /\ now = 0
    /\ cacheFiles = << >>
    /\ lastRequestTime = << >>
    /\ providerLog = << >>
    /\ conc = NoRace
    /\ ret = NoCall
    /\ portfolio \in VarPortfolios
    /\ cache = << >>
    /\ res = NoResult

NextVar ==
    \/ DoRmCalculateVar
    \/ DoPzCalculateVar

SpecVar == InitVar /\ [][NextVar]_vars

(* The efficient frontier reads of a holding its symbol only. *)
FrontierPortfolios ==
    { p \in VarPortfolios :
        \A i \in 1..Len(p) : p[i].quantity = 1 /\ p[i].purchase_price = 1 }

InitFrontier ==
    /\ now = 0
    /\ cacheFiles = << >>
    /\ lastRequestTime = << >>
    /\ providerLog = << >>
    /\ conc = NoRace
    /\ ret = NoCall
    /\ portfolio \in FrontierPortfolios
    /\ cache = << >>
    /\ res = NoResult

NextFrontier ==
    \/ DoRmSearchEfficientFrontier
    \/ DoPzCalculateEfficientFrontier

SpecFrontier == InitFrontier /\ [][NextFrontier]_vars

(* The risk metrics read of a holding its symbol only; one request on a new
   analyzer. *)
InitMetrics ==
    /\ now = 0
    /\ cacheFiles = << >>
    /\ lastRequestTime = << >>
    /\ providerLog = << >>
    /\ conc = NoRace
    /\ ret = NoCall
    /\ portfolio \in FrontierPortfolios
    /\ cache = << >>
    /\ res = NoResult

NextMetrics == DoCalculateRiskMetrics

SpecMetrics == InitMetrics /\ [][NextMetrics]_vars

---------------------------------------------------------------------------
(* Properties of the price history store *)

(* ret describes a get that has been made *)
Called == ret.seq > 0

(* the step is a get: ret' describes it, the unprimed store is what it found *)
IsGet == ret'.seq = ret.seq + 1

(* age of the entry the last get found, at the time it was called *)
FoundAge == ret.start - ret.found[1].mtime

(* C1: a get made while the stored entry for its (symbol, period) is younger
   than cache_duration, the entry being readable, returns exactly the stored
   series and issues no request to the provider. *)
C1_CacheHit ==
    [][ IsGet =>
          LET f == CacheFile(ret'.symbol, ret'.period)
          IN  ( /\ f \in DOMAIN cacheFiles
                /\ ret'.start - cacheFiles[f].mtime < CacheDuration
                /\ ~ret'.readFault )
              => /\ ret'.d = Frame(cacheFiles[f].data)
                 /\ ret'.times = <<>>
                 /\ ret'.chains = 0 ]_vars

C1_Witness ==
    /\ Called /\ ret.found # <<>> /\ ret.chains = 0
    /\ FoundAge = CacheDuration - 1
    /\ ret.d = Frame(ret.found[1].data)

(* C2: a get made when the stored entry is cache_duration old or older runs
   the fetch chain (at least one provider request), and when the chain yields
   a non-empty series and the cache write succeeds the entry afterwards holds
   that series with the time of the write as its timestamp. *)
C2_Expiry ==
    [][ IsGet =>
          LET f == CacheFile(ret'.symbol, ret'.period)
          IN  ( /\ f \in DOMAIN cacheFiles
                /\ ret'.start - cacheFiles[f].mtime >= CacheDuration )
              => /\ ret'.times # <<>>
                 /\ ret'.chains >= 1
                 /\ (Usable(ret'.d) /\ ~ret'.writeFault)
                      => /\ f \in DOMAIN cacheFiles'
                         /\ cacheFiles'[f] = [data |-> ret'.d.data, mtime |-> now']
                         /\ now' >= ret'.start ]_vars

C2_Witness ==
    /\ Called /\ ret.found # <<>> /\ FoundAge = CacheDuration
    /\ Usable(ret.d) /\ ret.d.data # ret.found[1].data
    /\ CacheFile(ret.symbol, ret.period) \in DOMAIN cacheFiles
    /\ cacheFiles[CacheFile(ret.symbol, ret.period)].data = ret.d.data

(* C3: any two consecutive provider requests for one symbol, with no cache
   clear between them, are at least min_request_interval apart. *)
C3_RateLimit ==
    [][ IsGet =>
          LET prev == IF ret'.symbol \in DOMAIN providerLog
                      THEN <<providerLog[ret'.symbol]>> ELSE <<>>
              all == prev \o ret'.times
          IN  \A i \in 1..(Len(all) - 1) :
                  all[i + 1] - all[i] >= MinRequestInterval ]_vars

(* C4: of two consecutive gets for one symbol (no clear between), the second
   passes its rate-limit step no sooner than min_request_interval after the
   first was called. *)
C4_BackToBack ==
    [][ ( /\ IsGet /\ Called
          /\ ret'.symbol = ret.symbol
          /\ ret.symbol \in DOMAIN providerLog )
        => ret'.passedAt - ret.start >= MinRequestInterval ]_vars

(* C5: a get whose fetch chain yields nothing usable has run the chain
   stop_after_attempt (3) times, never more, and ends as a failure. *)
C5_BoundedRetry ==
    /\ ret.chains <= StopAfterAttempt
    /\ (Called /\ ret.chains > 0 /\ ~Usable(ret.d))
         => ret.chains = StopAfterAttempt /\ ret.failed

(* C6: a get does not end on an attempt that was answered 429, unless that
   was the last of the 3 attempts. *)
C6_RateLimitedRetried ==
    (Called /\ ret.ended429) => ret.attempts = StopAfterAttempt

(* the last get ran the fetch chain and got a non-empty series *)
FetchedUsable == ret'.chains >= 1 /\ Usable(ret'.d)

(* the entry of the get is the series it returned, written when the call
   ended; no other entry has changed; the symbol's rate-limit timestamp is the
   time of the call *)
Persisted ==
    LET f == CacheFile(ret'.symbol, ret'.period)
    IN  /\ f \in DOMAIN cacheFiles'
        /\ cacheFiles'[f] = [data |-> ret'.d.data, mtime |-> now']
        /\ \A g \in (DOMAIN cacheFiles \cup DOMAIN cacheFiles') \ {f} :
              g \in DOMAIN cacheFiles /\ g \in DOMAIN cacheFiles'
              /\ cacheFiles'[g] = cacheFiles[g]
        /\ ret'.symbol \in DOMAIN lastRequestTime'
        /\ lastRequestTime'[ret'.symbol] = ret'.start

(* C24 as stated: after a get whose fetch chain yields a non-empty series the
   cache holds the entry of that (symbol, period) with the returned series and
   the time of the fetch, and the symbol's rate-limit timestamp is the time
   of the request. *)
C24_Persist_Original ==
    [][ (IsGet /\ FetchedUsable) => Persisted ]_vars

(* C24: after a get whose fetch chain yields a non-empty series and whose
   write of the cache file succeeds, the cache holds the entry of that
   (symbol, period) with the returned series and the time of the fetch; the
   symbol's rate-limit timestamp is the time of the request whether the write
   succeeds or not. *)
C24_Persist ==
    [][ (IsGet /\ FetchedUsable) =>
          /\ ~ret'.writeFault => Persisted
          /\ ret'.symbol \in DOMAIN lastRequestTime'
          /\ lastRequestTime'[ret'.symbol] = ret'.start ]_vars

(* a second get, later than the first, has stored its series next to the
   entry of the first *)
C24_Witness ==
    /\ Called /\ ret.chains >= 1 /\ Usable(ret.d) /\ ~ret.writeFault
    /\ ret.start > 0
    /\ ret.found = <<>>
    /\ Cardinality(DOMAIN cacheFiles) = 2
    /\ cacheFiles[CacheFile(ret.symbol, ret.period)].data = ret.d.data
    /\ lastRequestTime[ret.symbol] = ret.start

(* C25: a get that cannot read the fresh entry of its (symbol, period) does
   not raise: it runs the fetch chain and returns what the chain gave; a get
   that cannot write the new entry returns the fetched series all the same. *)
C25_IoFailureIsMiss ==
    Called =>
        /\ ret.readFault =>
              /\ ~ret.failed /\ ret.attempts = 1
              /\ ret.chains = 1 /\ ret.times # <<>>
        /\ ret.writeFault =>
              /\ ~ret.failed /\ ret.attempts = 1
              /\ ret.chains = 1 /\ Usable(ret.d)

(* a get found a fresh entry it could not read, fetched another series, could
   not write it, and returned it; the old entry is still there *)
C25_Witness ==
    /\ Called /\ ret.readFault /\ ret.writeFault
    /\ ret.found # <<>>
    /\ Usable(ret.d) /\ ret.d.data # ret.found[1].data
    /\ cacheFiles[CacheFile(ret.symbol, ret.period)] = ret.found[1]

(* C29: a get that finds an expired entry and whose refetch yields nothing
   usable does not return the expired series and leaves the cache entries and
   the rate-limit timestamps as they were. *)
C29_FailedRefresh ==
    [][ IsGet =>
          LET f == CacheFile(ret'.symbol, ret'.period)
          IN  ( /\ f \in DOMAIN cacheFiles
                /\ ret'.start - cacheFiles[f].mtime >= CacheDuration
                /\ ~Usable(ret'.d) )
              => /\ ret'.d # Frame(cacheFiles[f].data)
                 /\ ret'.chains >= 1
                 /\ cacheFiles' = cacheFiles
                 /\ lastRequestTime' = lastRequestTime ]_vars

(* a get found an entry a cache lifetime old, fetched nothing usable, and
   left the entry and the timestamp of the earlier get in place *)
C29_Witness ==
    /\ Called /\ ret.found # <<>> /\ FoundAge >= CacheDuration
    /\ ret.chains >= 1 /\ ~Usable(ret.d)
    /\ cacheFiles[CacheFile(ret.symbol, ret.period)] = ret.found[1]
    /\ ret.symbol \in DOMAIN lastRequestTime
    /\ lastRequestTime[ret.symbol] < ret.start

---------------------------------------------------------------------------
(* Properties of the engines *)

Assets == 1..Len(portfolio)

(* the fetch for holding i of the last operation gave a non-empty series *)
Fetched(i) == i \in DOMAIN res.fetched /\ Usable(res.fetched[i])

(* C7: an operation on a portfolio (of holdings of distinct symbols) where the
   fetch of one holding failed and that of another succeeded does not end as
   an error-only result. *)
C7_PerAssetResilience ==
    ( /\ res.op \in {"total_value", "asset_allocation", "rm_portfolio_value",
                     "rm_efficient_frontier"}
      /\ \A i, j \in Assets : i # j => portfolio[i].symbol # portfolio[j].symbol
      /\ \E i \in Assets : ~Fetched(i)
      /\ \E j \in Assets : Fetched(j) )
    => res.status = "ok"

(* quantity x current price of holding i as the claim words it *)
ExpectedValue(i) ==
    portfolio[i].quantity *
      (IF res.fetched[i].none \/ res.fetched[i].data = <<>>
       THEN portfolio[i].purchase_price
       ELSE res.fetched[i].data[Len(res.fetched[i].data)])

(* C8: totalValue is the sum over the holdings of quantity x current price,
   the current price of each holding being the last close of the series its
   own fetch returned, and its purchase_price when that fetch returned None
   or an empty series. *)
C8_TotalValue ==
    res.op = "total_value" =>
        res.total = SumSeq([i \in Assets |-> ExpectedValue(i)])

C8_Witness ==
    /\ res.op = "total_value"
    /\ Len(portfolio) = 2
    /\ Fetched(1) /\ ~Fetched(2)
    /\ Len(res.fetched[1].data) = 2
    /\ res.fetched[1].data[1] # res.fetched[1].data[2]
    /\ portfolio[1].quantity = 2 /\ portfolio[2].quantity > 0
    /\ portfolio[2].purchase_price > 0
    /\ res.total = 2 * res.fetched[1].data[2]
                     + portfolio[2].quantity * portfolio[2].purchase_price

AllZeroPurchasePrice == \A i \in Assets : portfolio[i].purchase_price = 0

(* C9 as claimed: with every purchase_price 0, totalValue is 0 and
   assetAllocation is empty. *)
C9_AllZero_Original ==
    (AllZeroPurchasePrice /\ res.op \in {"total_value", "asset_allocation"})
    => res.total = 0 /\ res.allocation = << >>

(* C9, amended: with every purchase_price 0 and no holding's fetch giving a
   non-empty series, totalValue is 0 and assetAllocation is empty. *)
C9_AllZero ==
    ( /\ AllZeroPurchasePrice
      /\ res.op \in {"total_value", "asset_allocation"}
      /\ \A i \in Assets : ~Fetched(i) )
    => res.total = 0 /\ res.allocation = << >>

C9_Witness ==
    /\ res.op = "asset_allocation"
    /\ AllZeroPurchasePrice
    /\ Len(portfolio) = 2
    /\ \A i \in Assets : ~Fetched(i) /\ portfolio[i].quantity > 0
    /\ res.total = 0 /\ res.allocation = << >>

(* C10: for a portfolio of one holding (of positive total value: a total of 0
   gives the empty mapping by the rule of C9), assetAllocation has exactly one
   key, the holding's asset_type, at 100.00. *)
C10_SingleAsset ==
    (res.op = "asset_allocation" /\ Len(portfolio) = 1 /\ res.total > 0)
    => /\ DOMAIN res.allocation = { portfolio[1].asset_type }
       /\ res.allocation[portfolio[1].asset_type] = 10000


(* the targets whose difference to the current allocation exceeds 5 points *)
Exceeding ==
    { k \in 1..3 :
        LET target == <<6000, 3000, 1000>>[k]
            type == <<"stock", "bond", "etf">>[k]
            current == IF type \in DOMAIN res.allocation THEN res.allocation[type] ELSE 0
        IN  target - current > 500 \/ current - target > 500 }

(* C11: rebalancing emits exactly one suggestion for each target type whose
   |target - current| is strictly greater than 5 and none otherwise; its
   action is buy when current is below target and sell otherwise, and its
   adjustment_needed is |target - current|. *)
C11_Rebalancing ==
    res.op = "rebalancing" =>
        /\ Len(res.suggestions) = Cardinality(Exceeding)
        /\ \A k \in 1..3 :
             LET target == <<6000, 3000, 1000>>[k]
                 type == <<"stock", "bond", "etf">>[k]
                 current == IF type \in DOMAIN res.allocation
                            THEN res.allocation[type] ELSE 0
                 hits == { n \in 1..Len(res.suggestions) :
                             res.suggestions[n].asset_type = type }
             IN  /\ Cardinality(hits) = (IF k \in Exceeding THEN 1 ELSE 0)
                 /\ \A n \in hits :
                      /\ res.suggestions[n].suggested_action =
                           (IF current < target THEN "buy" ELSE "sell")
                      /\ res.suggestions[n].adjustment_needed =
                           (IF current < target THEN target - current
                            ELSE current - target)

(* allocation {stock: 100} yields sell 40 stock, buy 30 bond, buy 10 etf *)
C11_Witness ==
    /\ res.op = "rebalancing"
    /\ res.allocation = [t \in {"stock"} |-> 10000]
    /\ Len(res.suggestions) = 3
    /\ \E n \in 1..3 : /\ res.suggestions[n].asset_type = "stock"
                       /\ res.suggestions[n].suggested_action = "sell"
                       /\ res.suggestions[n].adjustment_needed = 4000
    /\ \E n \in 1..3 : /\ res.suggestions[n].asset_type = "bond"
                       /\ res.suggestions[n].suggested_action = "buy"
                       /\ res.suggestions[n].adjustment_needed = 3000
    /\ \E n \in 1..3 : /\ res.suggestions[n].asset_type = "etf"
                       /\ res.suggestions[n].suggested_action = "buy"
                       /\ res.suggestions[n].adjustment_needed = 1000


(* C12: portfolioMetrics makes no price fetch and leaves the cache as it is,
   and reports total_value = the sum of quantity x purchase_price, per asset
   the value quantity x purchase_price, and number_of_assets = the number of
   holdings. *)
C12_MetricsOffline ==
    [][ res'.op = "portfolio_metrics" =>
          /\ cache' = cache
          /\ res'.fetched = <<>>
          /\ res'.number_of_assets = Len(portfolio)
          /\ Len(res'.values) = Len(portfolio)
          /\ \A i \in Assets :
                res'.values[i] = portfolio[i].quantity * portfolio[i].purchase_price
          /\ res'.total =
                SumSeq([ i \in Assets |->
                           portfolio[i].quantity * portfolio[i].purchase_price ]) ]_vars

(* metrics of two holdings of positive value, asked for after a live price
   that differs from the purchase price was cached *)
C12_Witness ==
    /\ res.op = "portfolio_metrics"
    /\ Len(portfolio) = 2
    /\ \A i \in Assets : portfolio[i].quantity > 0 /\ portfolio[i].purchase_price > 0
    /\ \E i \in Assets :
          /\ CacheKey(portfolio[i].symbol, P1d) \in DOMAIN cache
          /\ LET s == cache[CacheKey(portfolio[i].symbol, P1d)]
             IN  s[Len(s)] # portfolio[i].purchase_price
    /\ res.total = portfolio[1].quantity * portfolio[1].purchase_price
                     + portfolio[2].quantity * portfolio[2].purchase_price


---------------------------------------------------------------------------
(* Properties of the risk engine *)

(* scenario k of the last stress test shocks every holding by s percent *)
Uniform(k, s) ==
    \A i \in Assets :
        /\ portfolio[i].symbol \in DOMAIN res.scenarios[k]
        /\ res.scenarios[k][portfolio[i].symbol] = s

StressResults ==
    IF res.op = "rm_stress_test" /\ res.status = "ok"
    THEN 1..Len(res.results) ELSE {}

(* C13: on a portfolio of positive current value, a scenario of 0% shocks
   reports a portfolio value equal to the current value and a change of 0%. *)
C13_ZeroShock ==
    (res.op = "rm_stress_test" /\ res.total > 0) =>
        /\ res.status = "ok"
        /\ Len(res.results) = Len(res.scenarios)
        /\ \A k \in 1..Len(res.scenarios) :
              (\A sym \in DOMAIN res.scenarios[k] : res.scenarios[k][sym] = 0) =>
                  /\ res.results[k].portfolio_value = res.total
                  /\ res.results[k].change_percentage = 0

C13_Witness ==
    /\ res.op = "rm_stress_test"
    /\ Len(portfolio) = 2
    /\ res.total > 0
    /\ Fetched(1) /\ ~Fetched(2)
    /\ res.fetched[1].data[1] # portfolio[1].purchase_price
    /\ \A i \in Assets : portfolio[i].quantity > 0 /\ portfolio[i].purchase_price > 0
    /\ Len(res.scenarios) = 1
    /\ Uniform(1, 0)
    /\ res.results[1].portfolio_value = res.total
    /\ res.results[1].change_percentage = 0

(* C14: a scenario applying the same shock s to every holding reports
   (1 + s) x current value, current value being the sum of quantity x current
   price, and a change of s x 100 percent, whether or not live prices differ
   from purchase prices. *)
C14_UniformShock ==
    \A k \in StressResults : \A s \in Shocks :
        (Uniform(k, s) /\ res.total > 0) =>
            /\ 100 * res.results[k].portfolio_value = (100 + s) * res.total
            /\ res.results[k].change_percentage = s * 100


(* the VaR amount calculate_var reports at confidence level c for the return
   series and the portfolio value of the last call *)
VarAmountAt(c) ==
    LET var == Percentile(res.returns, 100 - c)
    IN  RoundHalfEven(IF var < 0 THEN -var ELSE var, 100 * CloseDen)

(* and the VaR percentage *)
VarPercentageAt(c) ==
    LET var == Percentile(res.returns, 100 - c)
    IN  RoundHalfEven(100 * (IF var < 0 THEN -var ELSE var), res.total * CloseDen)

(* C15: for a fixed return series and portfolio value and confidence levels
   c1 < c2, the VaR magnitude reported at c2, as an amount and as a
   percentage, is at least that reported at c1. *)
C15_VarMonotone ==
    (res.op = "rm_var" /\ res.status = "ok") =>
        \A c1, c2 \in ConfidenceLevels :
            c1 < c2 => /\ VarAmountAt(c2) >= VarAmountAt(c1)
                       /\ VarPercentageAt(c2) >= VarPercentageAt(c1)


(* the value of the portfolio at purchase prices *)
PurchaseValue ==
    SumSeq([ i \in Assets |-> portfolio[i].quantity * portfolio[i].purchase_price ])

(* the value the fallback of the last VaR call starts from *)
FallbackValue == IF res.op = "rm_var" THEN res.total ELSE PurchaseValue

(* C16: when valueAtRisk can build no return series for any holding of a
   portfolio of positive value, it returns the flat estimate of 2% of the
   portfolio value (to the cent) with a warning, not an unflagged zero VaR
   and not an error. *)
C16_VarFallback ==
    ( /\ res.op \in {"rm_var", "pz_var"}
      /\ FallbackValue > 0
      /\ Len(res.fetched) = Len(portfolio)
      /\ \A i \in Assets : ~Fetched(i) )
    => /\ res.status = "warning"
       /\ 100 * res.var_amount - 2 * FallbackValue <= 50
       /\ 2 * FallbackValue - 100 * res.var_amount <= 50


(* the Sharpe ratio of sample a is at least that of sample b: with a positive
   risk on both sides, excess(a) / sqrt(variance(a)) >= excess(b) /
   sqrt(variance(b)), compared through the squares *)
SharpeAtLeast(a, b) ==
    IF a.variance > 0 /\ b.variance > 0
    THEN LET l == a.excess * a.excess
             r == b.excess * b.excess
         IN  \/ a.excess >= 0 /\ b.excess < 0
             \/ a.excess >= 0 /\ b.excess >= 0 /\ FracGE(l, a.variance, r, b.variance)
             \/ a.excess < 0 /\ b.excess < 0 /\ FracGE(r, b.variance, l, a.variance)
    ELSE \/ a.variance = 0 /\ a.excess > 0
         \/ b.variance = 0 /\ b.excess < 0

FrontierOps == {"rm_efficient_frontier", "pz_efficient_frontier"}

(* C17: in every run over assets with usable data, each sample's weights are
   non-negative and sum to 1, and the optimal portfolio is one of the samples,
   of a Sharpe ratio at least that of every sample. *)
C17_Frontier ==
    (res.op \in FrontierOps /\ res.status = "ok") =>
        /\ Len(res.samples) >= 1
        /\ \A k \in 1..Len(res.samples) :
              /\ \A i \in DOMAIN res.samples[k].weights : res.samples[k].weights[i] >= 0
              /\ res.samples[k].total > 0
              /\ SumSeq(res.samples[k].weights) = res.samples[k].total
        /\ res.optimal \in 1..Len(res.samples)
        /\ \A k \in 1..Len(res.samples) :
              SharpeAtLeast(res.samples[res.optimal], res.samples[k])

(* a run of two samples of different Sharpe ratios on two assets, the second
   sample being the optimal one *)
C17_Witness ==
    /\ res.op = "rm_efficient_frontier" /\ res.status = "ok"
    /\ Len(portfolio) = 2
    /\ Len(res.samples) = 2
    /\ res.optimal = 2
    /\ res.samples[1].variance > 0 /\ res.samples[2].variance > 0
    /\ ~SharpeAtLeast(res.samples[1], res.samples[2])
    /\ res.samples[2].total > 1


(* C18: no operation faults on a zero denominator: a stress test of a portfolio
   of total value zero succeeds and reports the change of every scenario as
   0. *)
C18_DivisionGuard ==
    (res.op = "rm_stress_test" /\ res.total = 0) =>
        /\ res.status = "ok"
        /\ Len(res.results) = Len(res.scenarios)
        /\ \A k \in DOMAIN res.results : res.results[k].change_percentage = 0


(* C19: when no holding of a non-empty portfolio gives a usable price series,
   the risk metrics come back zeroed and with an error field. *)
C19_FailureShape ==
    ( /\ res.op = "risk_metrics"
      /\ Len(portfolio) >= 1
      /\ \A i \in DOMAIN res.fetched : ~Usable(res.fetched[i]) ) =>
        /\ res.status = "error"
        /\ res.beta = "zero" /\ res.sharpe_ratio = "zero" /\ res.volatility = "zero"


(* Properties of the cache administration *)

(* no entry for the symbol under any period, and no rate-limit timestamp *)
Cleared(symbol) ==
    /\ \A period \in Periods : CacheFile(symbol, period) \notin DOMAIN cacheFiles
    /\ symbol \notin DOMAIN lastRequestTime

(* the step is a get_data for the symbol *)
IsGetOf(symbol) == ret'.seq = ret.seq + 1 /\ ret'.symbol = symbol

(* C20: clear_cache(symbol) leaves no entry for the symbol under any period
   and no rate-limit timestamp for it; this lasts until the next get for the
   symbol, which contacts the provider without a rate-limit delay. *)
C20_ClearBySymbol ==
    [][ \A symbol \in Symbols :
          /\ ClearCache(symbol) => Cleared(symbol)'
          /\ (Cleared(symbol) /\ ~IsGetOf(symbol)) => Cleared(symbol)'
          /\ (Cleared(symbol) /\ IsGetOf(symbol)) =>
                /\ ret'.found = <<>>
                /\ ret'.times # <<>>
                /\ ret'.passedAt = ret'.start ]_vars

(* the series the last call stored has been removed together with the
   symbol's timestamp, while another symbol's entry is still there *)
C20_Witness ==
    /\ ret.seq >= 1 /\ Usable(ret.d) /\ ret.times # <<>> /\ ~ret.writeFault
    /\ Cleared(ret.symbol)
    /\ \E f \in DOMAIN cacheFiles : TRUE


(* the (symbol, period) entries the store holds *)
Entries == { e \in Symbols \X Periods : CacheFile(e[1], e[2]) \in DOMAIN cacheFiles }

(* C21: get_cache_stats reports the number of (symbol, period) entries stored
   and the number of symbols holding a rate-limit timestamp; on the store as
   clear-all leaves it, both are 0 and oldest and newest are absent. *)
C21_CacheStats ==
    [][ /\ GetCacheStats =>
              /\ res'.op = "cache_stats"
              /\ res'.total_cached_symbols = Cardinality(Entries)
              /\ res'.active_symbols =
                    Cardinality({ s \in Symbols : s \in DOMAIN lastRequestTime })
              /\ (res'.oldest_cache = <<>>) = (Entries = {})
              /\ (res'.newest_cache = <<>>) = (Entries = {})
        /\ ClearCache(<<>>) =>
              /\ Entries' = {}
              /\ CacheStats(cacheFiles', lastRequestTime') =
                    [total_cached_symbols |-> 0, oldest_cache |-> <<>>,
                     newest_cache |-> <<>>, active_symbols |-> 0] ]_vars

(* statistics taken while one symbol holds entries under both periods *)
C21_Witness ==
    /\ res.op = "cache_stats"
    /\ res.total_cached_symbols = 2
    /\ res.active_symbols = 1
    /\ Cardinality(Entries) = 2
    /\ res.oldest_cache # <<>>


(* Properties of concurrent gets *)

(* C22: every series a concurrent get returns is a series the provider
   returned for the symbol and period. *)
C22_ConcurrentGets ==
    \A p \in DOMAIN conc.procs :
        (conc.procs[p].pc = "done" /\ ~conc.procs[p].d.none) =>
            \/ conc.procs[p].d.data = <<>>
            \/ conc.procs[p].d.data \in conc.provided


(* Properties of one fetch *)

Yields(m) == m.kind \in {"frame", "ok"} /\ m.data # <<>>
Tried(method) == \E i \in DOMAIN res.tried : res.tried[i] = method

(* C23: the chart endpoint is asked only if the primary method returned no
   usable series, the scraped page only if neither of the two did, and the
   result is the series of the first method in the order that yields a
   non-empty one. *)
C23_ChainOrder ==
    /\ res.op = "fetch_data" =>
          /\ Tried("direct") => ~Yields(res.resp.primary)
          /\ Yields(res.resp.primary) => res.fetched[1] = Frame(res.resp.primary.data)
          /\ (Tried("direct") /\ Yields(res.resp.direct)) =>
                res.fetched[1] = Frame(res.resp.direct.data)
    /\ res.op = "get_ticker_data" =>
          /\ Tried("m2") => ~Yields(res.resp.m1)
          /\ Tried("m3") => ~Yields(res.resp.m1) /\ ~Yields(res.resp.m2)
          /\ Yields(res.resp.m1) => res.fetched[1] = Frame(res.resp.m1.data)
          /\ (~Yields(res.resp.m1) /\ Yields(res.resp.m2)) =>
                res.fetched[1] = Frame(res.resp.m2.data)
          /\ (~Yields(res.resp.m1) /\ ~Yields(res.resp.m2) /\ Yields(res.resp.m3)) =>
                res.fetched[1] = Frame(res.resp.m3.data)

(* the analyzer returns the scraped series, the first method having raised
   and the second having given an empty frame *)
C23_Witness ==
    /\ res.op = "get_ticker_data"
    /\ res.tried = <<"m1", "m2", "m3">>
    /\ res.resp.m1.kind = "raise"
    /\ res.resp.m2 = MethodFrame(<<>>)
    /\ Yields(res.resp.m3)
    /\ res.fetched[1] = Frame(res.resp.m3.data)


(* C26: every series returned has strictly increasing timestamps and no bar
   whose close is null. *)
C26_SeriesInvariant ==
    res.op \in {"fetch_direct", "ticker_direct", "risk_ticker_direct"} =>
        /\ \A i \in 1..(Len(res.bars) - 1) : res.bars[i].time < res.bars[i + 1].time
        /\ \A i \in 1..Len(res.bars) : ~res.bars[i].null


(* C28: when the primary method raises, the chart endpoint is still asked
   before the fetch ends without a series. *)
C28_FallbackOnException ==
    /\ (res.op = "fetch_data" /\ res.resp.primary.kind = "raise") => Tried("direct")
    /\ (res.op = "get_ticker_data" /\ res.resp.m1.kind = "raise") => Tried("m2")

(* Frame of the clears *)

(* C27, the analyzer's cache: clear_cache(symbol) leaves the entries of every
   other symbol as they were, those of a symbol that starts with the cleared
   one included. *)
C27_ClearFrame ==
    [][ \A symbol \in Symbols :
          AnalyzerClearCache(symbol) =>
              \A other \in Symbols \ {symbol}, period \in Periods :
                  CacheKey(other, period) \in DOMAIN cache =>
                      /\ CacheKey(other, period) \in DOMAIN cache'
                      /\ cache'[CacheKey(other, period)] = cache[CacheKey(other, period)]
      ]_vars

(* C27, the disk cache: clear_cache(symbol) leaves the files and the timestamp
   of every other symbol as they were. *)
C27_DiskFrame ==
    [][ \A symbol \in Symbols :
          ClearCache(symbol) =>
              \A other \in Symbols \ {symbol} :
                  /\ \A period \in Periods :
                        CacheFile(other, period) \in DOMAIN cacheFiles =>
                            /\ CacheFile(other, period) \in DOMAIN cacheFiles'
                            /\ cacheFiles'[CacheFile(other, period)]
                                  = cacheFiles[CacheFile(other, period)]
                  /\ other \in DOMAIN lastRequestTime =>
                        /\ other \in DOMAIN lastRequestTime'
                        /\ lastRequestTime'[other] = lastRequestTime[other]
      ]_vars


(* Properties of the two caches *)

(* the entry under key k of f is new or has changed *)
Written(f, g, k) == k \in DOMAIN g /\ (k \in DOMAIN f => g[k] # f[k])

(* C30, calls one after the other: every entry of the disk cache and of the
   analyzer's cache is a non-empty series; an entry appears or changes only
   by a get (a lookup) of its own symbol and period whose fetch returned that
   series. *)
C30_SequentialCalls ==
    [][ /\ \A f \in DOMAIN cacheFiles' : cacheFiles'[f].data # <<>>
        /\ \A k \in DOMAIN cache' : cache'[k] # <<>>
        /\ \A f \in DOMAIN cacheFiles' :
              Written(cacheFiles, cacheFiles', f) =>
                  /\ IsGet
                  /\ f = CacheFile(ret'.symbol, ret'.period)
                  /\ ret'.chains >= 1 /\ ret'.times # <<>>
                  /\ Usable(ret'.d)
                  /\ cacheFiles'[f].data = ret'.d.data
        /\ \A k \in DOMAIN cache' :
              Written(cache, cache', k) =>
                  /\ res'.op = "lookup"
                  /\ k = res'.key
                  /\ res'.fetched = << Frame(cache'[k]) >>
                  /\ \E m \in { res'.resp.m1, res'.resp.m2, res'.resp.m3 } :
                        m.kind = "frame" /\ m.data = cache'[k] ]_vars

(* a lookup whose three methods all failed has stored nothing, next to the
   entry an earlier lookup stored *)
C30_SequentialWitness ==
    /\ res.op = "lookup"
    /\ ~Usable(res.fetched[1])
    /\ res.resp.m1 = MethodFrame(<<>>)
    /\ res.key \notin DOMAIN cache
    /\ cache # << >>


(* C30: whenever no call is writing the cache file, the file, if there is
   one, holds a non-empty series that a fetch returned for its symbol and
   period. *)
C30_OnlyUsableCached ==
    (conc.exists /\ \A p \in DOMAIN conc.procs : conc.procs[p].pc # "write") =>
        /\ Loadable(conc.content)
        /\ Load(conc.content) # <<>>
        /\ Load(conc.content) \in conc.provided

====
